---------------------------- MODULE Spec2Model ----------------------------
(***************************************************************************)
(* Model of src/voice_typer.py: the dictation app's orchestration state    *)
(* machine (VoiceTyperApp), its AudioRecorder, the background              *)
(* transcription task and the status-indicator poll.                       *)
(*                                                                         *)
(* Threads of control:                                                     *)
(*   "hk"      the hotkey listener thread, which runs toggle_recording     *)
(*   task ids  the threads spawned for _transcribe_and_type                *)
(*   "poll"    the rumps timer callback update_status                      *)
(*   driver    the audio callback (AudioRecorder._callback)                *)
(*   "h1","h2" callers of AudioRecorder.start/stop in the recorder-only    *)
(*             specification RecSpec (the class driven in any call order)  *)
(*                                                                         *)
(* Calls into the sound driver (InputStream(), stream.start/stop/close),    *)
(* the file system (mkstemp, the wave writer, unlink), the transcription   *)
(* backend and the keyboard controller either return or raise; both        *)
(* outcomes are enumerated at each such call.  Starting a thread, taking a *)
(* lock and the in-memory operations (list append / clear, concatenate)    *)
(* are taken to succeed.  The process is taken to keep running.            *)
(***************************************************************************)
EXTENDS Integers, Sequences, FiniteSets, TLC

\* ------------------------------------------------------------------ bounds
\* Longest sequence of chunks the audio callback accumulates in one session.
MaxFrames == 2
\* Number of temporary file names mkstemp can hand out at one time.
MaxPaths == 2
\* Number of task threads that can be alive at one time.
MaxTasks == 2
\* Longest raw text a transcriber returns.
MaxTextLen == 3
\* Number of pieces a hotkey string or a language string is put together from.
MaxPieces == 3
\* The longest string field of a config that is saved.
MaxValueLen == 2

\* The chunk payloads the driver can deliver.
Chunks == {1, 2}
Paths == 1..MaxPaths
TaskIds == 1..MaxTasks

Harness == {"h1", "h2"}
Callers == {"hk"} \cup Harness

Free == "free"
NoStream == "none"
NoPath == 0
\* A path of the temporary directory: whether a file exists there, and its frames.
NoFile == [exists |-> FALSE, data |-> << >>]
File(data) == [exists |-> TRUE, data |-> data]
\* No string (a local not assigned yet, nothing typed).
NoText == << "<none>" >>
\* No pure function is being applied; no transcription job is being polled.
NoCall == [fn |-> "none"]
NoJob == [pc |-> "off"]

\* ------------------------------------------------------------------- state
VARIABLES
    is_recording,   \* VoiceTyperApp._is_recording
    is_busy,        \* VoiceTyperApp._is_busy
    app_lock,       \* VoiceTyperApp._lock: Free, "hk", "poll" or "task"
    append_space,   \* AppConfig.append_space of the running app
    stream,         \* AudioRecorder._stream: NoStream or "open" (a stream object)
    active,         \* the driver is delivering callbacks for the stream
    frames,         \* AudioRecorder._frames
    rec_lock,       \* AudioRecorder._lock: Free or the caller holding it
    pc,             \* per caller: position in toggle_recording / start / stop
    exc,            \* per caller: outcome of its last finished start()/stop()
    audio_data,     \* per caller: stop()'s local audio_data
    wav_path,       \* per caller: _recording_to_wav's wav_path / stop()'s result
    files,          \* temporary directory: path -> content, or NoFile
    tasks,          \* task id -> the live _transcribe_and_type thread, or NoTask
    calls,          \* what the current toggle_recording invocation has done
    poll_pc,        \* position of update_status
    shown,          \* update_status's locals (recording, busy)
    session,        \* the chunks the driver delivered since the stream was opened
    pure,           \* a call of one of the module's pure functions
    aai             \* a call of AssemblyAITranscriber.transcribe in its status loop

vars == << is_recording, is_busy, app_lock, append_space, stream, active, frames,
           rec_lock, pc, exc, audio_data, wav_path, files, tasks, calls,
           poll_pc, shown, session, pure, aai >>

appVars == << is_recording, is_busy, app_lock >>
recVars == << stream, active, frames, rec_lock >>
callerVars == << pc, exc, audio_data, wav_path >>
pollVars == << poll_pc, shown >>
libVars == << pure, aai >>

\* ------------------------------------------------------------------- texts
Chars == {"a", " "}

RECURSIVE SeqsUpTo(_, _)
SeqsUpTo(S, n) ==
    IF n = 0 THEN {<< >>}
    ELSE LET shorter == SeqsUpTo(S, n - 1)
         IN  shorter \cup {Append(s, x) : s \in shorter, x \in S}

\* What Transcriber.transcribe can return.
RawTexts == SeqsUpTo(Chars, MaxTextLen)

RECURSIVE LStrip(_)
LStrip(s) ==
    IF s = << >> THEN s
    ELSE IF Head(s) = " " THEN LStrip(Tail(s)) ELSE s

RECURSIVE RStrip(_)
RStrip(s) ==
    IF s = << >> THEN s
    ELSE IF s[Len(s)] = " " THEN RStrip(SubSeq(s, 1, Len(s) - 1)) ELSE s

\* str.strip()
Strip(s) == RStrip(LStrip(s))

\* The session's tri-state, read off the two flags.
Idle == ~is_recording /\ ~is_busy
Recording == is_recording /\ ~is_busy
Transcribing == is_busy /\ ~is_recording

\* A thread running _transcribe_and_type(path): its position, its locals
\* (raw is what transcribe returned, until the text has been looked at), what
\* it has typed, and how often it has called transcribe and type_text.
NewTask(path) ==
    [pc |-> "start", audio_path |-> path, raw |-> NoText, text |-> NoText,
     arg |-> NoText, typed |-> NoText, nTranscribe |-> 0, nType |-> 0]

\* No thread under this task id.
NoTask == [NewTask(NoPath) EXCEPT !.pc = "none"]

\* update_status's locals outside the call.
NotShown == [recording |-> FALSE, busy |-> FALSE]

NoCalls == [start |-> 0, stop |-> 0, spawn |-> 0]

LiveTasks == {t \in TaskIds : tasks[t].pc # "none"}
FreePaths == {p \in Paths : ~files[p].exists}
ExistingFiles == {p \in Paths : files[p].exists}

\* ------------------------------------------------------------------- init
InitShared ==
    /\ is_recording = FALSE
    /\ is_busy = FALSE
    /\ app_lock = Free
    /\ stream = NoStream
    /\ active = FALSE
    /\ frames = << >>
    /\ rec_lock = Free
    /\ exc = [c \in Callers |-> "none"]
    /\ audio_data = [c \in Callers |-> << >>]
    /\ wav_path = [c \in Callers |-> NoPath]
    /\ files = [p \in Paths |-> NoFile]
    /\ tasks = [t \in TaskIds |-> NoTask]
    /\ calls = NoCalls
    /\ poll_pc = "idle"
    /\ shown = NotShown
    /\ session = << >>

\* VoiceTyperApp after __init__, with its hotkey listener and status timer running.
Init ==
    /\ InitShared
    /\ append_space \in BOOLEAN
    /\ pc = [c \in Callers |-> IF c = "hk" THEN "idle" ELSE "off"]
    /\ pure = NoCall
    /\ aai = NoJob

\* ---------------------------------------------------------- audio callback
\* AudioRecorder._callback: appends the delivered chunk, takes no lock.
AudioCallback ==
    /\ active
    /\ Len(frames) < MaxFrames
    /\ \E ch \in Chunks :
          /\ frames' = Append(frames, ch)
          /\ session' = Append(session, ch)
    /\ UNCHANGED << appVars, append_space, stream, active, rec_lock, callerVars,
                    files, tasks, calls, pollVars, libVars >>

\* ------------------------------------------------------ AudioRecorder.start
Goto(c, where) == pc' = [pc EXCEPT ![c] = where]
Raise(c, what) == exc' = [exc EXCEPT ![c] = what]

\* with self._lock:
RecStartAcquire(c) ==
    /\ pc[c] = "start_acquire"
    /\ rec_lock = Free
    /\ rec_lock' = c
    /\ Goto(c, "start_check")
    /\ UNCHANGED << appVars, append_space, stream, active, frames, exc,
                    audio_data, wav_path, files, tasks, calls, pollVars,
                    session, libVars >>

\* Mutant of RecStartCheck: the buffer is cleared before the stream is checked.
RecStartCheck_ClearsFirst(c) ==
    /\ pc[c] = "start_check"
    /\ frames' = << >>
    /\ IF stream # NoStream
       THEN /\ Raise(c, "AlreadyRecording")
            /\ rec_lock' = Free
            /\ Goto(c, "start_done")
       ELSE /\ Goto(c, "start_open")
            /\ UNCHANGED << exc, rec_lock >>
    /\ UNCHANGED << appVars, append_space, stream, active, audio_data, wav_path,
                    files, tasks, calls, pollVars,
                    session, libVars >>

\* Mutant of RecStartCheck: the buffer of the previous session is kept.
RecStartCheck_KeepsFrames(c) ==
    /\ pc[c] = "start_check"
    /\ IF stream # NoStream
       THEN /\ Raise(c, "AlreadyRecording")
            /\ rec_lock' = Free
            /\ Goto(c, "start_done")
       ELSE /\ Goto(c, "start_open")
            /\ UNCHANGED << exc, rec_lock >>
    /\ UNCHANGED << appVars, append_space, stream, active, frames, audio_data,
                    wav_path, files, tasks, calls, pollVars,
                    session, libVars >>

\* if self._stream is not None: raise ...; self._frames.clear()
RecStartCheck(c) ==
    /\ pc[c] = "start_check"
    /\ IF stream # NoStream
       THEN /\ Raise(c, "AlreadyRecording")
            /\ rec_lock' = Free
            /\ Goto(c, "start_done")
            /\ UNCHANGED frames
       ELSE /\ frames' = << >>
            /\ Goto(c, "start_open")
            /\ UNCHANGED << exc, rec_lock >>
    /\ UNCHANGED << appVars, append_space, stream, active, audio_data, wav_path,
                    files, tasks, calls, pollVars,
                    session, libVars >>

\* self._stream = self._sd.InputStream(...): the constructor opens the device
\* and may raise, in which case the assignment does not happen.
RecStartOpen(c) ==
    /\ pc[c] = "start_open"
    /\ \/ /\ stream' = "open"
          /\ session' = << >>
          /\ Goto(c, "start_stream")
          /\ UNCHANGED << exc, rec_lock >>
       \/ /\ Raise(c, "PortAudioError")
          /\ rec_lock' = Free
          /\ Goto(c, "start_done")
          /\ UNCHANGED << stream, session >>
    /\ UNCHANGED << appVars, append_space, active, frames, audio_data, wav_path,
                    files, tasks, calls, pollVars, libVars >>

\* self._stream.start(): may raise, after self._stream has been assigned.
RecStartStream(c) ==
    /\ pc[c] = "start_stream"
    /\ \/ /\ active' = TRUE
          /\ Raise(c, "none")
       \/ /\ Raise(c, "PortAudioError")
          /\ UNCHANGED active
    /\ rec_lock' = Free
    /\ Goto(c, "start_done")
    /\ UNCHANGED << appVars, append_space, stream, frames, audio_data, wav_path,
                    files, tasks, calls, pollVars,
                    session, libVars >>

\* ------------------------------------------------------- AudioRecorder.stop
RecStopAcquire(c) ==
    /\ pc[c] = "stop_acquire"
    /\ rec_lock = Free
    /\ rec_lock' = c
    /\ Goto(c, "stop_check")
    /\ UNCHANGED << appVars, append_space, stream, active, frames, exc,
                    audio_data, wav_path, files, tasks, calls, pollVars,
                    session, libVars >>

\* if self._stream is None: raise ...
RecStopCheck(c) ==
    /\ pc[c] = "stop_check"
    /\ IF stream = NoStream
       THEN /\ Raise(c, "NotRecording")
            /\ rec_lock' = Free
            /\ wav_path' = [wav_path EXCEPT ![c] = NoPath]
            /\ Goto(c, "stop_done")
       ELSE /\ Goto(c, "stop_stream")
            /\ UNCHANGED << exc, rec_lock, wav_path >>
    /\ UNCHANGED << appVars, append_space, stream, active, frames, audio_data,
                    files, tasks, calls, pollVars,
                    session, libVars >>

\* self._stream.stop(): returns once the driver delivers no more callbacks, or
\* raises, and then the stream may or may not still be running.
RecStopStream(c) ==
    /\ pc[c] = "stop_stream"
    /\ \/ /\ active' = FALSE
          /\ Goto(c, "stop_close")
          /\ UNCHANGED << exc, rec_lock, wav_path >>
       \/ /\ active' \in {active, FALSE}
          /\ Raise(c, "PortAudioError")
          /\ rec_lock' = Free
          /\ wav_path' = [wav_path EXCEPT ![c] = NoPath]
          /\ Goto(c, "stop_done")
    /\ UNCHANGED << appVars, append_space, stream, frames, audio_data, files,
                    tasks, calls, pollVars,
                    session, libVars >>

\* self._stream.close(); self._stream = None
RecStopClose(c) ==
    /\ pc[c] = "stop_close"
    /\ \/ /\ stream' = NoStream
          /\ Goto(c, "stop_read")
          /\ UNCHANGED << exc, rec_lock, wav_path >>
       \/ /\ Raise(c, "PortAudioError")
          /\ rec_lock' = Free
          /\ wav_path' = [wav_path EXCEPT ![c] = NoPath]
          /\ Goto(c, "stop_done")
          /\ UNCHANGED stream
    /\ UNCHANGED << appVars, append_space, active, frames, audio_data, files,
                    tasks, calls, pollVars,
                    session, libVars >>

\* Mutant of RecStopRead: the empty buffer is not rejected.
RecStopRead_NoEmptyCheck(c) ==
    /\ pc[c] = "stop_read"
    /\ audio_data' = [audio_data EXCEPT ![c] = frames]
    /\ Goto(c, "stop_mkstemp")
    /\ rec_lock' = Free
    /\ UNCHANGED << appVars, append_space, stream, active, frames, exc, wav_path,
                    files, tasks, calls, pollVars,
                    session, libVars >>

\* if not self._frames: raise ...; audio_data = concatenate(self._frames);
\* the with block ends here, so the recorder lock is released on both paths.
RecStopRead(c) ==
    /\ pc[c] = "stop_read"
    /\ IF frames = << >>
       THEN /\ Raise(c, "NoAudioCaptured")
            /\ wav_path' = [wav_path EXCEPT ![c] = NoPath]
            /\ Goto(c, "stop_done")
            /\ UNCHANGED audio_data
       ELSE /\ audio_data' = [audio_data EXCEPT ![c] = frames]
            /\ Goto(c, "stop_mkstemp")
            /\ UNCHANGED << exc, wav_path >>
    /\ rec_lock' = Free
    /\ UNCHANGED << appVars, append_space, stream, active, frames, files, tasks,
                    calls, pollVars,
                    session, libVars >>

\* _recording_to_wav: tempfile.mkstemp creates a new empty file under a name
\* that does not exist yet, or raises without creating one.
RecWavMkstemp(c) ==
    /\ pc[c] = "stop_mkstemp"
    /\ \/ \E p \in FreePaths :
             /\ files' = [files EXCEPT ![p] = File(<< >>)]
             /\ wav_path' = [wav_path EXCEPT ![c] = p]
             /\ Goto(c, "stop_write")
             /\ UNCHANGED << exc, audio_data >>
       \/ /\ Raise(c, "OSError")
          /\ wav_path' = [wav_path EXCEPT ![c] = NoPath]
          /\ audio_data' = [audio_data EXCEPT ![c] = << >>]
          /\ Goto(c, "stop_done")
          /\ UNCHANGED files
    /\ UNCHANGED << appVars, append_space, recVars, tasks, calls, pollVars,
                    session, libVars >>

\* _recording_to_wav: wave.open(...).writeframes(...); return Path(wav_path).
\* A failed write raises out of stop() and leaves the created file behind.
RecWavWrite(c) ==
    /\ pc[c] = "stop_write"
    /\ \/ /\ files' = [files EXCEPT ![wav_path[c]] = File(audio_data[c])]
          /\ Raise(c, "none")
          /\ UNCHANGED wav_path
       \/ /\ Raise(c, "OSError")
          /\ wav_path' = [wav_path EXCEPT ![c] = NoPath]
          /\ UNCHANGED files
    /\ audio_data' = [audio_data EXCEPT ![c] = << >>]
    /\ Goto(c, "stop_done")
    /\ UNCHANGED << appVars, append_space, recVars, tasks, calls, pollVars,
                    session, libVars >>

RecorderStep(c) ==
    \/ RecStartAcquire(c)
    \/ RecStartCheck(c)
    \/ RecStartOpen(c)
    \/ RecStartStream(c)
    \/ RecStopAcquire(c)
    \/ RecStopCheck(c)
    \/ RecStopStream(c)
    \/ RecStopClose(c)
    \/ RecStopRead(c)
    \/ RecWavMkstemp(c)
    \/ RecWavWrite(c)


\* --------------------------------------- VoiceTyperApp.toggle_recording
\* The hotkey listener invokes toggle_recording on its own thread and waits for
\* it to return before it handles the next press.
HotkeyPress ==
    /\ pc["hk"] = "idle"
    /\ Goto("hk", "t_acquire")
    /\ calls' = NoCalls
    /\ UNCHANGED << appVars, append_space, recVars, exc, audio_data, wav_path,
                    files, tasks, pollVars,
                    session, libVars >>

\* with self._lock:
ToggleAcquire ==
    /\ pc["hk"] = "t_acquire"
    /\ app_lock = Free
    /\ app_lock' = "hk"
    /\ Goto("hk", "t_locked")
    /\ UNCHANGED << is_recording, is_busy, append_space, recVars, exc, audio_data,
                    wav_path, files, tasks, calls, pollVars,
                    session, libVars >>

\* Mutant of ToggleBusy: the press is kept and retried once the lock is free.
ToggleBusy_Queued ==
    /\ pc["hk"] = "t_locked"
    /\ is_busy
    /\ app_lock' = Free
    /\ Goto("hk", "t_acquire")
    /\ UNCHANGED << is_recording, is_busy, append_space, recVars, exc, audio_data,
                    wav_path, files, tasks, calls, pollVars,
                    session, libVars >>

\* Mutant of ToggleBusy: the early return leaves the app lock held.
ToggleBusy_KeepsLock ==
    /\ pc["hk"] = "t_locked"
    /\ is_busy
    /\ Goto("hk", "idle")
    /\ UNCHANGED << appVars, append_space, recVars, exc, audio_data, wav_path,
                    files, tasks, calls, pollVars, session, libVars >>

\* if self._is_busy: print(...); return
ToggleBusy ==
    /\ pc["hk"] = "t_locked"
    /\ is_busy
    /\ app_lock' = Free
    /\ Goto("hk", "idle")
    /\ UNCHANGED << is_recording, is_busy, append_space, recVars, exc, audio_data,
                    wav_path, files, tasks, calls, pollVars,
                    session, libVars >>

\* if not self._is_recording: ... self.recorder.start()
ToggleCallStart ==
    /\ pc["hk"] = "t_locked"
    /\ ~is_busy
    /\ ~is_recording
    /\ calls' = [calls EXCEPT !.start = @ + 1]
    /\ Goto("hk", "start_acquire")
    /\ UNCHANGED << appVars, append_space, recVars, exc, audio_data, wav_path,
                    files, tasks, pollVars,
                    session, libVars >>

\* Mutant of ToggleStartReturn: the flag is set although start() raised.
ToggleStartReturn_IgnoresFailure ==
    /\ pc["hk"] = "start_done"
    /\ is_recording' = TRUE
    /\ app_lock' = Free
    /\ Goto("hk", "idle")
    /\ UNCHANGED << is_busy, append_space, recVars, exc, audio_data, wav_path,
                    files, tasks, calls, pollVars,
                    session, libVars >>

\* except Exception: print(...); return  /  self._is_recording = True; return
ToggleStartReturn ==
    /\ pc["hk"] = "start_done"
    /\ is_recording' = (IF exc["hk"] = "none" THEN TRUE ELSE is_recording)
    /\ app_lock' = Free
    /\ Goto("hk", "idle")
    /\ UNCHANGED << is_busy, append_space, recVars, exc, audio_data, wav_path,
                    files, tasks, calls, pollVars,
                    session, libVars >>

\* audio_path = self.recorder.stop()
ToggleCallStop ==
    /\ pc["hk"] = "t_locked"
    /\ ~is_busy
    /\ is_recording
    /\ calls' = [calls EXCEPT !.stop = @ + 1]
    /\ Goto("hk", "stop_acquire")
    /\ UNCHANGED << appVars, append_space, recVars, exc, audio_data, wav_path,
                    files, tasks, pollVars,
                    session, libVars >>

\* Mutant of ToggleStopReturn: the recording flag is not cleared on success.
ToggleStopReturn_KeepsRecording ==
    /\ pc["hk"] = "stop_done"
    /\ app_lock' = Free
    /\ IF exc["hk"] = "none"
       THEN /\ is_busy' = TRUE
            /\ Goto("hk", "t_spawn")
            /\ UNCHANGED is_recording
       ELSE /\ is_recording' = FALSE
            /\ Goto("hk", "idle")
            /\ UNCHANGED is_busy
    /\ UNCHANGED << append_space, recVars, exc, audio_data, wav_path, files,
                    tasks, calls, pollVars,
                    session, libVars >>

\* Mutant of ToggleStopReturn: the recording flag is not cleared when stop()
\* raised.
ToggleStopReturn_KeepsRecordingOnError ==
    /\ pc["hk"] = "stop_done"
    /\ app_lock' = Free
    /\ IF exc["hk"] = "none"
       THEN /\ is_recording' = FALSE
            /\ is_busy' = TRUE
            /\ Goto("hk", "t_spawn")
       ELSE /\ Goto("hk", "idle")
            /\ UNCHANGED << is_recording, is_busy >>
    /\ UNCHANGED << append_space, recVars, exc, audio_data, wav_path, files,
                    tasks, calls, pollVars,
                    session, libVars >>

\* except Exception: self._is_recording = False; return
\* else: self._is_recording = False; self._is_busy = True; the with block ends.
ToggleStopReturn ==
    /\ pc["hk"] = "stop_done"
    /\ is_recording' = FALSE
    /\ app_lock' = Free
    /\ IF exc["hk"] = "none"
       THEN /\ is_busy' = TRUE
            /\ Goto("hk", "t_spawn")
       ELSE /\ Goto("hk", "idle")
            /\ UNCHANGED is_busy
    /\ UNCHANGED << append_space, recVars, exc, audio_data, wav_path, files,
                    tasks, calls, pollVars,
                    session, libVars >>

\* threading.Thread(target=self._transcribe_and_type, args=(audio_path,)).start()
ToggleSpawn ==
    /\ pc["hk"] = "t_spawn"
    /\ LiveTasks # TaskIds
    /\ LET t == CHOOSE x \in TaskIds \ LiveTasks :
                    \A y \in TaskIds \ LiveTasks : x <= y
       IN  tasks' = [tasks EXCEPT ![t] = NewTask(wav_path["hk"])]
    /\ calls' = [calls EXCEPT !.spawn = @ + 1]
    /\ wav_path' = [wav_path EXCEPT !["hk"] = NoPath]
    /\ Goto("hk", "idle")
    /\ UNCHANGED << appVars, append_space, recVars, exc, audio_data, files,
                    pollVars,
                    session, libVars >>

\* ---------------------------------- VoiceTyperApp._transcribe_and_type
TaskGoto(t, where) == tasks' = [tasks EXCEPT ![t].pc = where]

\* Mutant of TaskTranscribeCall: the task takes the app lock for the call.
TaskTranscribeCall_UnderLock(t) ==
    /\ tasks[t].pc = "start"
    /\ app_lock = Free
    /\ app_lock' = "task"
    /\ tasks' = [tasks EXCEPT ![t].pc = "transcribing",
                              ![t].nTranscribe = @ + 1]
    /\ UNCHANGED << is_recording, is_busy, append_space, recVars, callerVars,
                    files, calls, pollVars,
                    session, libVars >>

\* Mutant of TaskTranscribeCall: the busy flag is given up before the call.
TaskTranscribeCall_ResetsEarly(t) ==
    /\ tasks[t].pc = "start"
    /\ app_lock = Free
    /\ is_busy' = FALSE
    /\ tasks' = [tasks EXCEPT ![t].pc = "transcribing",
                              ![t].nTranscribe = @ + 1]
    /\ UNCHANGED << is_recording, app_lock, append_space, recVars, callerVars,
                    files, calls, pollVars, session, libVars >>

\* text = self.transcriber.transcribe(audio_path)...: the call is entered
TaskTranscribeCall(t) ==
    /\ tasks[t].pc = "start"
    /\ tasks' = [tasks EXCEPT ![t].pc = "transcribing",
                              ![t].nTranscribe = @ + 1]
    /\ UNCHANGED << appVars, append_space, recVars, callerVars, files, calls,
                    pollVars,
                    session, libVars >>

\* ...the call returns a string, which is stripped, or raises (except Exception).
TaskTranscribeReturn(t) ==
    /\ tasks[t].pc = "transcribing"
    /\ \/ \E raw \in RawTexts :
             tasks' = [tasks EXCEPT ![t].pc = "check", ![t].raw = raw,
                                       ![t].text = Strip(raw)]
       \/ TaskGoto(t, "finally")
    /\ UNCHANGED << appVars, append_space, recVars, callerVars, files, calls,
                    pollVars,
                    session, libVars >>

\* Mutant of TextToType: the space is appended whatever the setting.
TextToType_AlwaysSpace(text) == text \o << " " >>

\* What is handed to TextTyper.type_text.
TextToType(text) == IF append_space THEN text \o << " " >> ELSE text

\* Mutant of TaskCheckText: the return on an empty text leaves the function
\* without running the cleanup.
TaskCheckText_ReturnSkipsCleanup(t) ==
    /\ tasks[t].pc = "check"
    /\ IF tasks[t].text = << >>
       THEN tasks' = [tasks EXCEPT ![t] = NoTask]
       ELSE tasks' = [tasks EXCEPT ![t].pc = "typing",
                                   ![t].raw = NoText,
                                   ![t].arg = IF append_space
                                              THEN tasks[t].text \o << " " >>
                                              ELSE tasks[t].text,
                                   ![t].nType = @ + 1]
    /\ UNCHANGED << appVars, append_space, recVars, callerVars, files, calls,
                    pollVars,
                    session, libVars >>

\* if not text: return  /  text_to_type = ...; self.typer.type_text(text_to_type)
TaskCheckText(t) ==
    /\ tasks[t].pc = "check"
    /\ IF tasks[t].text = << >>
       THEN tasks' = [tasks EXCEPT ![t].pc = "finally", ![t].raw = NoText]
       ELSE tasks' = [tasks EXCEPT ![t].pc = "typing",
                                   ![t].raw = NoText,
                                   ![t].arg = TextToType(tasks[t].text),
                                   ![t].nType = @ + 1]
    /\ UNCHANGED << appVars, append_space, recVars, callerVars, files, calls,
                    pollVars,
                    session, libVars >>

\* type_text returns after typing its argument, or raises (except Exception).
TaskTypeReturn(t) ==
    /\ tasks[t].pc = "typing"
    /\ \/ tasks' = [tasks EXCEPT ![t].pc = "finally", ![t].typed = tasks[t].arg]
       \/ TaskGoto(t, "finally")
    /\ UNCHANGED << appVars, append_space, recVars, callerVars, files, calls,
                    pollVars,
                    session, libVars >>

\* finally: audio_path.unlink(missing_ok=True). An OSError other than "no such
\* file" leaves the finally block, and the thread, before the flag is reset.
TaskUnlink(t) ==
    /\ tasks[t].pc = "finally"
    /\ \/ /\ files' = [files EXCEPT ![tasks[t].audio_path] = NoFile]
          /\ TaskGoto(t, "f_acquire")
       \/ /\ files[tasks[t].audio_path].exists
          /\ tasks' = [tasks EXCEPT ![t] = NoTask]
          /\ UNCHANGED files
    /\ UNCHANGED << appVars, append_space, recVars, callerVars, calls, pollVars,
                    session, libVars >>

\* with self._lock:
TaskAcquire(t) ==
    /\ tasks[t].pc = "f_acquire"
    /\ app_lock = Free
    /\ app_lock' = "task"
    /\ TaskGoto(t, "f_locked")
    /\ UNCHANGED << is_recording, is_busy, append_space, recVars, callerVars,
                    files, calls, pollVars,
                    session, libVars >>

\* self._is_busy = False; the thread ends.
TaskReset(t) ==
    /\ tasks[t].pc = "f_locked"
    /\ is_busy' = FALSE
    /\ app_lock' = Free
    /\ tasks' = [tasks EXCEPT ![t] = NoTask]
    /\ UNCHANGED << is_recording, append_space, recVars, callerVars, files,
                    calls, pollVars,
                    session, libVars >>

TaskStep(t) ==
    \/ TaskTranscribeCall(t)
    \/ TaskTranscribeReturn(t)
    \/ TaskCheckText(t)
    \/ TaskTypeReturn(t)
    \/ TaskUnlink(t)
    \/ TaskAcquire(t)
    \/ TaskReset(t)

\* ------------------------------------------- VoiceTyperApp.run.update_status
\* Mutant of PollAcquire: the flags are read without taking the app lock.
PollAcquire_NoLock ==
    /\ poll_pc = "idle"
    /\ poll_pc' = "locked"
    /\ UNCHANGED << appVars, append_space, recVars, callerVars, files, tasks,
                    calls, shown, session, libVars >>

\* with self._lock:
PollAcquire ==
    /\ poll_pc = "idle"
    /\ app_lock = Free
    /\ app_lock' = "poll"
    /\ poll_pc' = "locked"
    /\ UNCHANGED << is_recording, is_busy, append_space, recVars, callerVars,
                    files, tasks, calls, shown,
                    session, libVars >>

\* recording = self._is_recording
PollReadRecording ==
    /\ poll_pc = "locked"
    /\ shown' = [shown EXCEPT !.recording = is_recording]
    /\ poll_pc' = "locked2"
    /\ UNCHANGED << appVars, append_space, recVars, callerVars, files, tasks,
                    calls, session, libVars >>

\* busy = self._is_busy; the with block ends.
PollRead ==
    /\ poll_pc = "locked2"
    /\ shown' = [shown EXCEPT !.busy = is_busy]
    /\ app_lock' = Free
    /\ poll_pc' = "show"
    /\ UNCHANGED << is_recording, is_busy, append_space, recVars, callerVars,
                    files, tasks, calls,
                    session, libVars >>

\* if recording: ... elif busy: ... else: ...: what the poll sets as status title.
Title(snapshot) ==
    IF snapshot.recording THEN "opname"
    ELSE IF snapshot.busy THEN "transcriberen" ELSE "klaar"

\* The titles are set from the snapshot, outside the lock; update_status returns.
PollShow ==
    /\ poll_pc = "show"
    /\ shown' = NotShown
    /\ poll_pc' = "idle"
    /\ UNCHANGED << appVars, append_space, recVars, callerVars, files, tasks,
                    calls,
                    session, libVars >>

\* -------------------------------------------------------- the running app
ToggleStep ==
    \/ HotkeyPress
    \/ ToggleAcquire
    \/ ToggleBusy
    \/ ToggleCallStart
    \/ ToggleStartReturn
    \/ ToggleCallStop
    \/ ToggleStopReturn
    \/ ToggleSpawn

PollStep ==
    \/ PollAcquire
    \/ PollReadRecording
    \/ PollRead
    \/ PollShow

Next ==
    \/ ToggleStep
    \/ RecorderStep("hk")
    \/ AudioCallback
    \/ \E t \in TaskIds : TaskStep(t)
    \/ PollStep

Spec == Init /\ [][Next]_vars

\* The steps of a toggle_recording call that is under way; whether the hotkey
\* is pressed again is up to the user.
ToggleProgress ==
    \/ ToggleBusy
    \/ ToggleCallStart
    \/ ToggleStartReturn
    \/ ToggleCallStop
    \/ ToggleStopReturn
    \/ ToggleSpawn
    \/ RecorderStep("hk")

\* Every thread that can take a step eventually takes one, and a thread that
\* waits for the app lock gets it: the lock is only ever held for a few
\* statements (lines 425-447, 469-470, 512-514).
Fairness ==
    /\ WF_vars(ToggleProgress)
    /\ SF_vars(ToggleAcquire)
    /\ WF_vars(PollReadRecording \/ PollRead \/ PollShow)
    /\ \A t \in TaskIds :
          /\ WF_vars(TaskTranscribeCall(t) \/ TaskTranscribeReturn(t)
                       \/ TaskCheckText(t) \/ TaskTypeReturn(t)
                       \/ TaskUnlink(t) \/ TaskReset(t))
          /\ SF_vars(TaskAcquire(t))

FairSpec == Init /\ [][Next]_vars /\ Fairness

\* The same threads with one audio chunk value and two transcripts (an empty
\* one and a non-empty one): which lock a thread takes never depends on what
\* was recorded or recognized, only on whether the text is empty.
UniformData ==
    /\ \A i \in DOMAIN frames : frames[i] = 1
    /\ \A t \in TaskIds : tasks[t].raw \in {NoText, << >>, << "a" >>}

LockInit ==
    /\ InitShared
    /\ append_space = TRUE
    /\ pc = [c \in Callers |-> IF c = "hk" THEN "idle" ELSE "off"]
    /\ pure = NoCall
    /\ aai = NoJob

LockNext ==
    \/ ToggleStep
    \/ RecorderStep("hk")
    \/ AudioCallback /\ UniformData'
    \/ \E t \in TaskIds : TaskStep(t) /\ UniformData'
    \/ PollStep

LockSpec == LockInit /\ [][LockNext]_vars /\ Fairness

\* ------------------------------------- AudioRecorder driven by any callers
RecInit ==
    /\ InitShared
    /\ append_space = TRUE
    /\ pc = [c \in Callers |-> IF c \in Harness THEN "idle" ELSE "off"]
    /\ pure = NoCall
    /\ aai = NoJob

HarnessCallStart(c) ==
    /\ pc[c] = "idle"
    /\ Goto(c, "start_acquire")
    /\ UNCHANGED << appVars, append_space, recVars, exc, audio_data, wav_path,
                    files, tasks, calls, pollVars,
                    session, libVars >>

HarnessCallStop(c) ==
    /\ pc[c] = "idle"
    /\ Goto(c, "stop_acquire")
    /\ UNCHANGED << appVars, append_space, recVars, exc, audio_data, wav_path,
                    files, tasks, calls, pollVars,
                    session, libVars >>

\* The call has returned or raised; the caller handles the exception, owns a
\* returned artifact and removes it.
HarnessReturn(c) ==
    /\ pc[c] \in {"start_done", "stop_done"}
    /\ Goto(c, "idle")
    /\ Raise(c, "none")
    /\ IF pc[c] = "stop_done" /\ wav_path[c] # NoPath
       THEN /\ files' = [files EXCEPT ![wav_path[c]] = NoFile]
            /\ wav_path' = [wav_path EXCEPT ![c] = NoPath]
       ELSE UNCHANGED << files, wav_path >>
    /\ UNCHANGED << appVars, append_space, recVars, audio_data, tasks, calls,
                    pollVars,
                    session, libVars >>

RecNext ==
    \/ \E c \in Harness :
          \/ HarnessCallStart(c)
          \/ HarnessCallStop(c)
          \/ HarnessReturn(c)
          \/ RecorderStep(c)
    \/ AudioCallback

RecSpec == RecInit /\ [][RecNext]_vars

\* ---------------------------------------------------------------- strings
\* A string is the sequence of its characters.
UpperLetters == << "A", "B", "C", "D", "E", "F", "G", "H", "I", "J", "K", "L",
                   "M", "N", "O", "P", "Q", "R", "S", "T", "U", "V", "W", "X",
                   "Y", "Z" >>
LowerLetters == << "a", "b", "c", "d", "e", "f", "g", "h", "i", "j", "k", "l",
                   "m", "n", "o", "p", "q", "r", "s", "t", "u", "v", "w", "x",
                   "y", "z" >>

LowerChar(ch) ==
    IF \E i \in DOMAIN UpperLetters : UpperLetters[i] = ch
    THEN LowerLetters[CHOOSE i \in DOMAIN UpperLetters : UpperLetters[i] = ch]
    ELSE ch

UpperChar(ch) ==
    IF \E i \in DOMAIN LowerLetters : LowerLetters[i] = ch
    THEN UpperLetters[CHOOSE i \in DOMAIN LowerLetters : LowerLetters[i] = ch]
    ELSE ch

\* str.lower(), str.upper(), str.capitalize()
Lower(s) == [i \in 1..Len(s) |-> LowerChar(s[i])]
Upper(s) == [i \in 1..Len(s) |-> UpperChar(s[i])]
Capitalize(s) ==
    [i \in 1..Len(s) |-> IF i = 1 THEN UpperChar(s[i]) ELSE LowerChar(s[i])]

\* A value read from the TOML file under one key: its type and the text that
\* str() gives for it; type "none" when the key is absent (data.get -> None).
Absent == [type |-> "none", text |-> << >>]
StrValue(s) == [type |-> "str", text |-> s]
BoolValue(b) ==
    [type |-> "bool",
     text |-> IF b THEN << "T", "r", "u", "e" >> ELSE << "F", "a", "l", "s", "e" >>]
IntValue(digit) == [type |-> "int", text |-> << digit >>]

\* _as_str
AsStr(value, default) == IF value.type = "none" THEN default ELSE value.text

\* ------------------------------------- load_config.engine, create_transcriber
Whisper == << "w", "h", "i", "s", "p", "e", "r" >>
AssemblyAI == << "a", "s", "s", "e", "m", "b", "l", "y", "a", "i" >>
Google == << "g", "o", "o", "g", "l", "e" >>
Gemini == << "g", "e", "m", "i", "n", "i" >>
\* The names create_transcriber compares config.engine with.
EngineNames == {Whisper, AssemblyAI, Google, Gemini}
\* AppConfig.engine's default.
DefaultEngine == Whisper

\* Engine strings that are no engine name in any letter case.
OtherEngines == {<< >>, << "a", "z", "u", "r", "e" >>, Whisper \o << " " >>,
                 Whisper \o << "x" >>, << "g", "o", "o", "g", "l" >>}
\* What config.engine can be when create_transcriber is called directly.
EngineStrings ==
    LET base == EngineNames \cup OtherEngines
    IN  base \cup {Upper(e) : e \in base} \cup {Capitalize(e) : e \in base}
\* What the file can hold under the key `engine`.
StoredEngines ==
    {Absent} \cup {StrValue(e) : e \in EngineStrings}
             \cup {BoolValue(b) : b \in BOOLEAN} \cup {IntValue("5")}

NoVariant == "none"
\* The class create_transcriber instantiates for an engine name.
VariantOf(engine) ==
    IF engine = Whisper THEN "WhisperTranscriber"
    ELSE IF engine = AssemblyAI THEN "AssemblyAITranscriber"
    ELSE IF engine = Google THEN "GoogleTranscriber"
    ELSE IF engine = Gemini THEN "GeminiTranscriber"
    ELSE NoVariant

\* main() for `run`: the file's engine value, then load_config, then
\* VoiceTyperApp(config), which calls create_transcriber(config); or
\* create_transcriber called with any config.engine.
EngineInit ==
    /\ InitShared
    /\ append_space = TRUE
    /\ pc = [c \in Callers |-> "off"]
    /\ aai = NoJob
    /\ \/ \E v \in StoredEngines :
             pure = [fn |-> "load_config", pc |-> "load", stored |-> v,
                     engine |-> << >>, variant |-> NoVariant,
                     constructed |-> {}, exc |-> "none"]
       \/ \E e \in EngineStrings :
             pure = [fn |-> "create_transcriber", pc |-> "create",
                     stored |-> Absent, engine |-> e, variant |-> NoVariant,
                     constructed |-> {}, exc |-> "none"]

\* Mutant of LoadConfigEngine: an unknown engine falls back to the default.
LoadConfigEngine_FallsBack ==
    /\ pure.fn = "load_config"
    /\ pure.pc = "load"
    /\ LET e == Lower(AsStr(pure.stored, DefaultEngine))
       IN  pure' = [pure EXCEPT !.pc = "create",
                                !.engine = IF e \in EngineNames
                                           THEN e ELSE DefaultEngine]
    /\ UNCHANGED << appVars, append_space, recVars, callerVars, files, tasks,
                    calls, pollVars, session, aai >>

\* engine=_as_str(data.get("engine"), config.engine).lower()
LoadConfigEngine ==
    /\ pure.fn = "load_config"
    /\ pure.pc = "load"
    /\ pure' = [pure EXCEPT !.pc = "create",
                            !.engine = Lower(AsStr(pure.stored, DefaultEngine))]
    /\ UNCHANGED << appVars, append_space, recVars, callerVars, files, tasks,
                    calls, pollVars, session, aai >>

\* create_transcriber: the chain of comparisons; the matching class is
\* instantiated, or ValueError("Ongeldige engine...") is raised.
CreateTranscriber ==
    /\ pure.fn \in {"load_config", "create_transcriber"}
    /\ pure.pc = "create"
    /\ IF VariantOf(pure.engine) # NoVariant
       THEN pure' = [pure EXCEPT !.pc = "construct",
                                 !.variant = VariantOf(pure.engine)]
       ELSE pure' = [pure EXCEPT !.pc = "done", !.exc = "InvalidEngine"]
    /\ UNCHANGED << appVars, append_space, recVars, callerVars, files, tasks,
                    calls, pollVars, session, aai >>

\* The variant's __init__ returns the transcriber, or raises RuntimeError (a
\* dependency or a credential is missing).
ConstructVariant ==
    /\ pure.fn \in {"load_config", "create_transcriber"}
    /\ pure.pc = "construct"
    /\ \/ pure' = [pure EXCEPT !.pc = "done",
                               !.constructed = @ \cup {pure.variant}]
       \/ pure' = [pure EXCEPT !.pc = "done", !.exc = "BackendUnavailable"]
    /\ UNCHANGED << appVars, append_space, recVars, callerVars, files, tasks,
                    calls, pollVars, session, aai >>

EngineNext ==
    \/ LoadConfigEngine
    \/ CreateTranscriber
    \/ ConstructVariant

EngineSpec == EngineInit /\ [][EngineNext]_vars

\* ------------------- AssemblyAITranscriber.transcribe: the status loop
\* Time is counted in tenths of a second from the moment the deadline is set.
TenthsPerSecond == 10
\* deadline = time.time() + 300
DeadlineSeconds == 300
\* timeout=30 of the status request
RequestTimeoutSeconds == 30
\* time.sleep(1.2)
SleepTenths == 12

\* How long a status request can take until its response (or its failure).
RequestDurations == {0, 1, RequestTimeoutSeconds * TenthsPerSecond}
TerminalStatuses == {"completed", "error"}
\* payload.get("status")
Statuses == {"queued", "processing"} \cup TerminalStatuses
\* payload.get("text", "")
JobTexts == {<< >>, << "a" >>, << " ", "a", " " >>}

AaiInit ==
    /\ InitShared
    /\ append_space = TRUE
    /\ pc = [c \in Callers |-> "off"]
    /\ pure = NoCall
    /\ aai = [pc |-> "loop", now |-> 0,
              deadline |-> DeadlineSeconds * TenthsPerSecond,
              status |-> "none", result |-> NoText, exc |-> "none"]

\* while time.time() < deadline: ... / raise TimeoutError(...)
AaiLoopTest ==
    /\ aai.pc = "loop"
    /\ IF aai.now < aai.deadline
       THEN aai' = [aai EXCEPT !.pc = "get"]
       ELSE aai' = [aai EXCEPT !.pc = "done", !.exc = "BackendTimeout"]
    /\ UNCHANGED << appVars, append_space, recVars, callerVars, files, tasks,
                    calls, pollVars, session, pure >>

\* Mutant of AaiPoll: the status "error" is not treated as final.
AaiPoll_ErrorIgnored ==
    /\ aai.pc = "get"
    /\ \E d \in RequestDurations :
          \/ \E st \in Statuses, text \in JobTexts :
                aai' = [aai EXCEPT
                          !.now = @ + d,
                          !.status = st,
                          !.pc = IF st = "completed" THEN "done" ELSE "sleep",
                          !.result = IF st = "completed"
                                     THEN Strip(text) ELSE NoText]
          \/ aai' = [aai EXCEPT !.now = @ + d, !.pc = "done",
                                !.exc = "HTTPError"]
    /\ UNCHANGED << appVars, append_space, recVars, callerVars, files, tasks,
                    calls, pollVars, session, pure >>

\* The status request and what is done with its response: the request raises
\* (no connection, timeout, raise_for_status), or the payload's status is
\* completed (return the stripped text), error (raise RuntimeError), or
\* anything else (go on to the sleep).
AaiPoll ==
    /\ aai.pc = "get"
    /\ \E d \in RequestDurations :
          \/ \E st \in Statuses, text \in JobTexts :
                aai' = [aai EXCEPT
                          !.now = @ + d,
                          !.status = st,
                          !.pc = IF st \in TerminalStatuses
                                 THEN "done" ELSE "sleep",
                          !.result = IF st = "completed"
                                     THEN Strip(text) ELSE NoText,
                          !.exc = IF st = "error" THEN "BackendError" ELSE @]
          \/ aai' = [aai EXCEPT !.now = @ + d, !.pc = "done",
                                !.exc = "HTTPError"]
    /\ UNCHANGED << appVars, append_space, recVars, callerVars, files, tasks,
                    calls, pollVars, session, pure >>

\* time.sleep(1.2)
AaiSleep ==
    /\ aai.pc = "sleep"
    /\ aai' = [aai EXCEPT !.now = @ + SleepTenths, !.pc = "loop"]
    /\ UNCHANGED << appVars, append_space, recVars, callerVars, files, tasks,
                    calls, pollVars, session, pure >>

AaiNext ==
    \/ AaiLoopTest
    \/ AaiPoll
    \/ AaiSleep

\* The thread running transcribe keeps running: a request returns or raises
\* within its timeout, and a sleep ends.
AaiSpec == AaiInit /\ [][AaiNext]_vars /\ WF_vars(AaiNext)

\* ------------------------------------------------------- normalize_hotkey
Ctrl == << "c", "t", "r", "l" >>
Control == << "c", "o", "n", "t", "r", "o", "l" >>
Alt == << "a", "l", "t" >>
Option == << "o", "p", "t", "i", "o", "n" >>
Shift == << "s", "h", "i", "f", "t" >>
Cmd == << "c", "m", "d" >>
Command == << "c", "o", "m", "m", "a", "n", "d" >>
Win == << "w", "i", "n" >>
Windows == << "w", "i", "n", "d", "o", "w", "s" >>
Bracketed(s) == << "<" >> \o s \o << ">" >>

token_map ==
    [a \in {Ctrl, Control, Alt, Option, Shift, Cmd, Command, Win, Windows} |->
        IF a \in {Ctrl, Control} THEN Bracketed(Ctrl)
        ELSE IF a \in {Alt, Option} THEN Bracketed(Alt)
        ELSE IF a = Shift THEN Bracketed(Shift)
        ELSE Bracketed(Cmd)]

\* token_map.get(raw, raw)
TokenMapGet(raw) == IF raw \in DOMAIN token_map THEN token_map[raw] ELSE raw

\* Index of the first ch in s, 0 when there is none.
IndexOf(s, ch) ==
    IF \E i \in 1..Len(s) : s[i] = ch
    THEN CHOOSE i \in 1..Len(s) :
            s[i] = ch /\ \A j \in 1..(i - 1) : s[j] # ch
    ELSE 0

\* str.split(sep) for a one-character separator
RECURSIVE SplitOn(_, _)
SplitOn(s, sep) ==
    LET i == IndexOf(s, sep)
    IN  IF i = 0 THEN << s >>
        ELSE << SubSeq(s, 1, i - 1) >> \o SplitOn(SubSeq(s, i + 1, Len(s)), sep)

\* sep.join(parts)
RECURSIVE JoinWith(_, _)
JoinWith(parts, sep) ==
    IF parts = << >> THEN << >>
    ELSE IF Len(parts) = 1 THEN parts[1]
    ELSE parts[1] \o << sep >> \o JoinWith(Tail(parts), sep)

StartsWith(s, ch) == Len(s) > 0 /\ s[1] = ch
EndsWith(s, ch) == Len(s) > 0 /\ s[Len(s)] = ch
NonEmpty(s) == s # << >>

\* Mutant of HotkeyParts: blank parts are kept.
HotkeyParts_KeepsBlank(hotkey) ==
    LET split == SplitOn(hotkey, "+")
    IN  [i \in 1..Len(split) |-> Strip(split[i])]

\* parts = [part.strip() for part in hotkey.split("+") if part.strip()]
HotkeyParts(hotkey) ==
    LET split == SplitOn(hotkey, "+")
    IN  SelectSeq([i \in 1..Len(split) |-> Strip(split[i])], NonEmpty)

\* Mutant of NormalizeToken: the aliases are looked up as they were written.
NormalizeToken_CaseSensitiveAlias(part) ==
    LET raw == Lower(part)
    IN  IF StartsWith(raw, "<") /\ EndsWith(raw, ">") THEN raw
        ELSE TokenMapGet(part)

\* Mutant of NormalizeToken: a bracketed part is appended as it was written.
NormalizeToken_KeepsBracketedPart(part) ==
    LET raw == Lower(part)
    IN  IF StartsWith(raw, "<") /\ EndsWith(raw, ">") THEN part
        ELSE TokenMapGet(raw)

\* The body of the for loop: what is appended to `normalized` for one part.
NormalizeToken(part) ==
    LET raw == Lower(part)
    IN  IF StartsWith(raw, "<") /\ EndsWith(raw, ">") THEN raw
        ELSE TokenMapGet(raw)

\* The outcome of a call: the returned string, or the exception raised.
Returned(value) == [ok |-> TRUE, value |-> value, exc |-> "none"]
Raised(what) == [ok |-> FALSE, value |-> << >>, exc |-> what]
NoResult == Raised("none")

normalize_hotkey(hotkey) ==
    LET parts == HotkeyParts(hotkey)
    IN  IF parts = << >> THEN Raised("EmptyHotkey")
        ELSE Returned(JoinWith([i \in 1..Len(parts) |-> NormalizeToken(parts[i])],
                               "+"))

\* Strings put together from at most n of the given pieces.
RECURSIVE Concats(_, _)
Concats(pieces, n) ==
    IF n = 0 THEN {<< >>}
    ELSE LET shorter == Concats(pieces, n - 1)
         IN  shorter \cup {s \o x : s \in shorter, x \in pieces}

HotkeyPieces ==
    {<< "+" >>, << " " >>, << "<" >>, << ">" >>, << "d" >>, << "D" >>,
     Ctrl, Capitalize(Alt), Upper(Shift), Bracketed(Ctrl),
     Bracketed(<< "F", "5" >>)}

\* Every alias, in three letter cases, with and without whitespace around it.
AliasInputs ==
    LET forms(a) == {a, Upper(a), Capitalize(a)}
    IN  UNION {{f, << " " >> \o f, << " " >> \o f \o << " ", " " >>} :
                 f \in UNION {forms(a) : a \in DOMAIN token_map}}

HotkeyInputs == Concats(HotkeyPieces, MaxPieces) \cup AliasInputs

HotkeyInit ==
    /\ InitShared
    /\ append_space = TRUE
    /\ pc = [c \in Callers |-> "off"]
    /\ aai = NoJob
    /\ \E h \in HotkeyInputs :
          pure = [fn |-> "normalize_hotkey", pc |-> "call", input |-> h,
                  out |-> NoResult, again |-> NoResult]

\* normalized_hotkey = normalize_hotkey(self.config.hotkey)
NormalizeHotkeyCall ==
    /\ pure.fn = "normalize_hotkey"
    /\ pure.pc = "call"
    /\ LET result == normalize_hotkey(pure.input)
       IN  pure' = [pure EXCEPT !.out = result,
                                !.pc = IF result.ok THEN "returned" ELSE "raised"]
    /\ UNCHANGED << appVars, append_space, recVars, callerVars, files, tasks,
                    calls, pollVars, session, aai >>

\* The returned chord is normalized once more (the settings window saves the
\* normalized hotkey, and run() normalizes what it loads).
NormalizeHotkeyAgain ==
    /\ pure.fn = "normalize_hotkey"
    /\ pure.pc = "returned"
    /\ pure' = [pure EXCEPT !.again = normalize_hotkey(pure.out.value),
                            !.pc = "again"]
    /\ UNCHANGED << appVars, append_space, recVars, callerVars, files, tasks,
                    calls, pollVars, session, aai >>

HotkeyNext ==
    \/ NormalizeHotkeyCall
    \/ NormalizeHotkeyAgain

HotkeySpec == HotkeyInit /\ [][HotkeyNext]_vars

\* ------------- normalize_google_language, normalize_assemblyai_language
Nl == << "n", "l" >>
En == << "e", "n" >>
De == << "d", "e" >>
Fr == << "f", "r" >>
Es == << "e", "s" >>
Locale(lang, region) == lang \o << "-" >> \o region

defaults ==
    [l \in {Nl, En, De, Fr, Es} |->
        IF l = En THEN Locale(En, << "U", "S" >>) ELSE Locale(l, Upper(l))]

\* "-" in language
HasDash(language) == IndexOf(language, "-") # 0

\* Mutant of normalize_google_language: the table is looked up with the
\* language as it was written.
normalize_google_language_CaseSensitive(language) ==
    IF HasDash(language) THEN language
    ELSE IF language \in DOMAIN defaults THEN defaults[language]
    ELSE language

normalize_google_language(language) ==
    IF HasDash(language) THEN language
    ELSE IF Lower(language) \in DOMAIN defaults THEN defaults[Lower(language)]
    ELSE language

\* Mutant of normalize_assemblyai_language: the last "-" is split at.
normalize_assemblyai_language_LastDash(language) ==
    IF HasDash(language)
    THEN LET i == CHOOSE k \in 1..Len(language) :
                     /\ language[k] = "-"
                     /\ \A j \in (k + 1)..Len(language) : language[j] # "-"
         IN  SubSeq(language, 1, i - 1)
    ELSE language

\* language.split("-", maxsplit=1)[0]
normalize_assemblyai_language(language) ==
    IF HasDash(language)
    THEN SubSeq(language, 1, IndexOf(language, "-") - 1)
    ELSE language

\* x or y, for strings
OrElse(x, y) == IF x = << >> THEN y ELSE x

LanguagePieces ==
    {<< "-" >>, << "_" >>, Nl, Upper(Nl), Capitalize(En), De, Fr, Es,
     << "i", "t" >>, << "G", "B" >>, << "U", "S" >>}
\* What config.language can be.
Languages == Concats(LanguagePieces, MaxPieces)

LanguageInit ==
    /\ InitShared
    /\ append_space = TRUE
    /\ pc = [c \in Callers |-> "off"]
    /\ aai = NoJob
    /\ \E l \in Languages,
          f \in {"normalize_google_language", "normalize_assemblyai_language"} :
          pure = [fn |-> f, pc |-> "call", input |-> l, arg |-> << >>,
                  out |-> << >>, again |-> << >>]

\* GoogleTranscriber.__init__:
\* self._language = normalize_google_language(config.language or "nl-NL")
GoogleLanguageCall ==
    /\ pure.fn = "normalize_google_language"
    /\ pure.pc = "call"
    /\ LET arg == OrElse(pure.input, Locale(Nl, Upper(Nl)))
       IN  pure' = [pure EXCEPT !.arg = arg,
                                !.out = normalize_google_language(arg),
                                !.pc = "returned"]
    /\ UNCHANGED << appVars, append_space, recVars, callerVars, files, tasks,
                    calls, pollVars, session, aai >>

\* The function applied to its own result.
GoogleLanguageAgain ==
    /\ pure.fn = "normalize_google_language"
    /\ pure.pc = "returned"
    /\ pure' = [pure EXCEPT !.again = normalize_google_language(pure.out),
                            !.pc = "again"]
    /\ UNCHANGED << appVars, append_space, recVars, callerVars, files, tasks,
                    calls, pollVars, session, aai >>

\* AssemblyAITranscriber.__init__:
\* self._language = normalize_assemblyai_language(config.language or "nl")
AssemblyaiLanguageCall ==
    /\ pure.fn = "normalize_assemblyai_language"
    /\ pure.pc = "call"
    /\ LET arg == OrElse(pure.input, Nl)
       IN  pure' = [pure EXCEPT !.arg = arg,
                                !.out = normalize_assemblyai_language(arg),
                                !.pc = "returned"]
    /\ UNCHANGED << appVars, append_space, recVars, callerVars, files, tasks,
                    calls, pollVars, session, aai >>

\* The function applied to its own result.
AssemblyaiLanguageAgain ==
    /\ pure.fn = "normalize_assemblyai_language"
    /\ pure.pc = "returned"
    /\ pure' = [pure EXCEPT !.again = normalize_assemblyai_language(pure.out),
                            !.pc = "again"]
    /\ UNCHANGED << appVars, append_space, recVars, callerVars, files, tasks,
                    calls, pollVars, session, aai >>

LanguageNext ==
    \/ GoogleLanguageCall
    \/ GoogleLanguageAgain
    \/ AssemblyaiLanguageCall
    \/ AssemblyaiLanguageAgain

LanguageSpec == LanguageInit /\ [][LanguageNext]_vars


\* ------------------------------------------------ load_config, save_config
\* The characters of a string field: a plain letter, the letter n (an escape
\* letter of TOML), the backslash, the double quote and the line feed (a
\* control character).
ConfigChars == {"a", "n", "\\", "\"", "\n"}
ControlChars == {"\n"}
ConfigStrings == SeqsUpTo(ConfigChars, MaxValueLen)

Digits == << "0", "1", "2", "3", "4", "5", "6", "7", "8", "9" >>
IsDigit(ch) == \E i \in DOMAIN Digits : Digits[i] = ch
DigitOf(ch) == (CHOOSE i \in DOMAIN Digits : Digits[i] = ch) - 1
IsDigits(s) == s # << >> /\ \A i \in DOMAIN s : IsDigit(s[i])

\* str(n) for n >= 0, and for any int: what f"{config.sample_rate}" writes.
RECURSIVE NatText(_)
NatText(n) ==
    IF n < 10 THEN << Digits[n + 1] >>
    ELSE NatText(n \div 10) \o << Digits[(n % 10) + 1] >>
IntText(n) == IF n < 0 THEN << "-" >> \o NatText(0 - n) ELSE NatText(n)

\* The number a string of decimal digits denotes.
RECURSIVE NatOf(_)
NatOf(s) ==
    IF s = << >> THEN 0
    ELSE 10 * NatOf(SubSeq(s, 1, Len(s) - 1)) + DigitOf(s[Len(s)])

\* A sign and the rest of a numeral.
SignOf(s) == IF s # << >> /\ Head(s) = "-" THEN 0 - 1 ELSE 1
Unsigned(s) == IF s # << >> /\ Head(s) \in {"+", "-"} THEN Tail(s) ELSE s

\* Values of the other TOML types a hand-edited file can hold; text is what
\* str() gives.
NumValue(n) == [type |-> "int", text |-> IntText(n)]
FloatValue(text) == [type |-> "float", text |-> text]
ListValue(text) == [type |-> "list", text |-> text]
\* tomllib.TOMLDecodeError for the value's line.
ParseError == [type |-> "error", text |-> << >>]

\* TOML's integer: an optional sign, then 0 or digits without a leading zero.
IsTomlInteger(s) ==
    LET d == Unsigned(s)
    IN  IsDigits(d) /\ (Len(d) = 1 \/ Head(d) # "0")

\* TOML's float, as far as a fractional part goes: integer "." digits.
IsTomlFloat(s) ==
    \E i \in DOMAIN s :
       /\ s[i] = "."
       /\ IsTomlInteger(SubSeq(s, 1, i - 1))
       /\ IsDigits(SubSeq(s, i + 1, Len(s)))

\* TOML's basic string after its opening quote: the text up to the closing
\* quote with the escapes \\ \" \n resolved. A raw control character, any
\* other escape, a missing closing quote and text after it are errors.
RECURSIVE ParseBasic(_, _)
ParseBasic(rest, acc) ==
    IF rest = << >> THEN ParseError
    ELSE IF Head(rest) = "\""
         THEN IF Tail(rest) = << >> THEN StrValue(acc) ELSE ParseError
    ELSE IF Head(rest) = "\\"
         THEN IF Len(rest) < 2 THEN ParseError
              ELSE IF rest[2] \in {"\\", "\""}
                   THEN ParseBasic(Tail(Tail(rest)), Append(acc, rest[2]))
              ELSE IF rest[2] = "n"
                   THEN ParseBasic(Tail(Tail(rest)), Append(acc, "\n"))
              ELSE ParseError
    ELSE IF Head(rest) \in ControlChars THEN ParseError
    ELSE ParseBasic(Tail(rest), Append(acc, Head(rest)))

\* str() of the float a TOML float denotes: no plus sign, no trailing zeros
\* beyond the first fractional digit.
RECURSIVE DropZeros(_)
DropZeros(s) ==
    IF Len(s) >= 2 /\ s[Len(s)] = "0" /\ s[Len(s) - 1] # "."
    THEN DropZeros(SubSeq(s, 1, Len(s) - 1))
    ELSE s
FloatText(s) == DropZeros(IF Head(s) = "+" THEN Tail(s) ELSE s)

TrueText == << "t", "r", "u", "e" >>
FalseText == << "f", "a", "l", "s", "e" >>

\* tomllib's value parser on the text after `key = `.
ParseValue(text) ==
    IF text = << >> THEN ParseError
    ELSE IF Head(text) = "\"" THEN ParseBasic(Tail(text), << >>)
    ELSE IF text = TrueText THEN BoolValue(TRUE)
    ELSE IF text = FalseText THEN BoolValue(FALSE)
    ELSE IF IsTomlInteger(text)
         THEN NumValue(SignOf(text) * NatOf(Unsigned(text)))
    ELSE IF IsTomlFloat(text) THEN FloatValue(FloatText(text))
    ELSE IF Head(text) = "[" /\ text[Len(text)] = "]" /\ Len(text) = 3
              /\ IsDigit(text[2])
         THEN ListValue(text)
    ELSE ParseError

\* str.strip(): blanks and line feeds off both ends.
Whitespace == {" ", "\n"}
RECURSIVE StripWhitespace(_)
StripWhitespace(s) ==
    IF s = << >> THEN s
    ELSE IF Head(s) \in Whitespace THEN StripWhitespace(Tail(s))
    ELSE IF s[Len(s)] \in Whitespace
         THEN StripWhitespace(SubSeq(s, 1, Len(s) - 1))
    ELSE s

\* The strings _as_bool takes for true.
TruthyStrings == {<< "1" >>, TrueText, << "y", "e", "s" >>, << "y" >>,
                  << "o", "n" >>}

\* The integer part of a float's text.
IntegerPart(s) ==
    SubSeq(s, 1, (CHOOSE i \in DOMAIN s : s[i] = ".") - 1)

\* _as_bool
AsBool(value, default) ==
    IF value.type = "bool" THEN value.text = BoolValue(TRUE).text
    ELSE IF value.type \in {"int", "float"}
         THEN \E i \in DOMAIN value.text :
                 IsDigit(value.text[i]) /\ value.text[i] # "0"
    ELSE IF value.type = "str"
         THEN Lower(StripWhitespace(value.text)) \in TruthyStrings
    ELSE default

\* _as_int: int(value), the default on TypeError (None, a list) and on
\* ValueError (a string that is no numeral).
AsInt(value, default) ==
    IF value.type = "int"
    THEN SignOf(value.text) * NatOf(Unsigned(value.text))
    ELSE IF value.type = "bool"
         THEN IF value.text = BoolValue(TRUE).text THEN 1 ELSE 0
    ELSE IF value.type = "float"
         THEN SignOf(value.text) * NatOf(Unsigned(IntegerPart(value.text)))
    ELSE IF value.type = "str"
         THEN LET t == StripWhitespace(value.text)
              IN  IF IsDigits(Unsigned(t))
                  THEN SignOf(t) * NatOf(Unsigned(t))
                  ELSE default
    ELSE default

\* The keys in the order save_config writes them.
ConfigKeys ==
    << "engine", "hotkey", "language", "sample_rate", "append_space",
       "whisper_model", "whisper_device", "whisper_compute_type",
       "assemblyai_api_key", "google_credentials_path", "gemini_api_key" >>
KeySet == {ConfigKeys[i] : i \in DOMAIN ConfigKeys}
StringKeys == KeySet \ {"sample_rate", "append_space"}

\* AppConfig(): the defaults.
AppConfig ==
    [engine |-> Whisper,
     hotkey |-> Bracketed(Ctrl) \o << "+" >> \o Bracketed(Alt) \o << "+", "d" >>,
     language |-> Nl,
     sample_rate |-> 16000,
     append_space |-> TRUE,
     whisper_model |-> << "s", "m", "a", "l", "l" >>,
     whisper_device |-> << "a", "u", "t", "o" >>,
     whisper_compute_type |-> << "i", "n", "t", "8" >>,
     assemblyai_api_key |-> << >>,
     google_credentials_path |-> << >>,
     gemini_api_key |-> << >>]

\* The file: no file, or the value text of each key's line (no line for it).
NoConfigFile == << "<no file>" >>
NoLine == << "<no line>" >>

\* str.replace(old, new) for a one-character old.
RECURSIVE Replace(_, _, _)
Replace(s, old, new) ==
    IF s = << >> THEN s
    ELSE (IF Head(s) = old THEN new ELSE << Head(s) >>)
            \o Replace(Tail(s), old, new)

\* Mutant of quote: only the double quote is escaped.
quote_NoBackslash(value) ==
    << "\"" >> \o Replace(value, "\"", << "\\", "\"" >>) \o << "\"" >>

\* save_config.quote
quote(value) ==
    << "\"" >>
       \o Replace(Replace(value, "\\", << "\\", "\\" >>), "\"", << "\\", "\"" >>)
       \o << "\"" >>

\* save_config: the eleven lines.
save_config(config) ==
    [k \in KeySet |->
        IF k = "sample_rate" THEN IntText(config[k])
        ELSE IF k = "append_space"
             THEN IF config[k] THEN TrueText ELSE FalseText
        ELSE quote(config[k])]

\* data.get(key) after tomllib.load.
DataGet(file, k) == IF file[k] = NoLine THEN Absent ELSE ParseValue(file[k])

\* load_config
load_config(file) ==
    IF file = NoConfigFile THEN Returned(AppConfig)
    ELSE IF \E k \in KeySet : DataGet(file, k) = ParseError
         THEN Raised("TOMLDecodeError")
    ELSE Returned(
           [engine |-> Lower(AsStr(DataGet(file, "engine"), AppConfig.engine)),
            hotkey |-> AsStr(DataGet(file, "hotkey"), AppConfig.hotkey),
            language |-> AsStr(DataGet(file, "language"), AppConfig.language),
            sample_rate |->
                AsInt(DataGet(file, "sample_rate"), AppConfig.sample_rate),
            append_space |->
                AsBool(DataGet(file, "append_space"), AppConfig.append_space),
            whisper_model |->
                AsStr(DataGet(file, "whisper_model"), AppConfig.whisper_model),
            whisper_device |->
                AsStr(DataGet(file, "whisper_device"), AppConfig.whisper_device),
            whisper_compute_type |->
                AsStr(DataGet(file, "whisper_compute_type"),
                      AppConfig.whisper_compute_type),
            assemblyai_api_key |->
                AsStr(DataGet(file, "assemblyai_api_key"), << >>),
            google_credentials_path |->
                AsStr(DataGet(file, "google_credentials_path"), << >>),
            gemini_api_key |-> AsStr(DataGet(file, "gemini_api_key"), << >>)])

\* The configs handed to save_config: the defaults with one string field set
\* to any string, any of the sample rates and either append_space; and each
\* engine name, also capitalized.
SampleRates == {0 - 1, 0, 8000, 16000}
Configs ==
    {[AppConfig EXCEPT ![k] = s, !.sample_rate = n, !.append_space = b] :
        k \in StringKeys \ {"engine"}, s \in ConfigStrings,
        n \in SampleRates, b \in BOOLEAN}
    \cup
    {[AppConfig EXCEPT !.engine = e, !.sample_rate = n, !.append_space = b] :
        e \in EngineNames \cup {Capitalize(x) : x \in EngineNames},
        n \in SampleRates, b \in BOOLEAN}

\* A config that differs from the defaults in every field.
OtherConfig ==
    [engine |-> Gemini,
     hotkey |-> Bracketed(Shift) \o << "+", "a" >>,
     language |-> En,
     sample_rate |-> 8000,
     append_space |-> FALSE,
     whisper_model |-> << "b", "a", "s", "e" >>,
     whisper_device |-> << "c", "p", "u" >>,
     whisper_compute_type |-> << "f", "l", "o", "a", "t", "1", "6" >>,
     assemblyai_api_key |-> << "k", "1" >>,
     google_credentials_path |-> << "/", "g", ".", "j", "s", "o", "n" >>,
     gemini_api_key |-> << "k", "2" >>]

\* What an editor can leave after `key = `: strings, numbers, booleans, a
\* float, a list, and two lines that are no TOML.
StoredTexts ==
    {quote(s) : s \in {<< "m", "a", "y", "b", "e" >>, << "a", "b", "c" >>,
                       << "8", "0", "0", "0" >>, << " ", "1", "2", " " >>,
                       << "Y", "e", "s" >>, << "o", "f", "f" >>, << >>}}
    \cup {IntText(n) : n \in {0, 5, 44100}}
    \cup {TrueText, FalseText, << "1", ".", "5" >>, << "0", ".", "0" >>,
          << "[", "1", "]" >>, << "a", "b", "c" >>, << "\"", "a" >>}

\* The files load_config is called on without a save before: no file, or a
\* saved file with one line edited or removed.
EditedFiles ==
    {NoConfigFile}
    \cup {[save_config(base) EXCEPT ![k] = text] :
            base \in {AppConfig, OtherConfig}, k \in KeySet,
            text \in StoredTexts \cup {NoLine}}

NoConfig == [engine |-> << "<none>" >>]

ConfigInit ==
    /\ InitShared
    /\ append_space = TRUE
    /\ pc = [c \in Callers |-> "off"]
    /\ aai = NoJob
    /\ \/ \E cfg \in Configs :
             pure = [fn |-> "save_config", pc |-> "save", cfg |-> cfg,
                     file |-> NoConfigFile, loaded |-> NoConfig,
                     file2 |-> NoConfigFile, exc |-> "none"]
       \/ \E file \in EditedFiles :
             pure = [fn |-> "load_config", pc |-> "load", cfg |-> NoConfig,
                     file |-> file, loaded |-> NoConfig,
                     file2 |-> NoConfigFile, exc |-> "none"]

\* save_config(cfg, path): mkdir and write_text succeed or raise OSError.
SaveConfigCall ==
    /\ pure.fn = "save_config"
    /\ pure.pc = "save"
    /\ \/ pure' = [pure EXCEPT !.pc = "load", !.file = save_config(pure.cfg)]
       \/ pure' = [pure EXCEPT !.pc = "done", !.exc = "OSError"]
    /\ UNCHANGED << appVars, append_space, recVars, callerVars, files, tasks,
                    calls, pollVars, session, aai >>

\* load_config(path)
LoadConfigCall ==
    /\ pure.fn \in {"save_config", "load_config"}
    /\ pure.pc = "load"
    /\ LET r == load_config(pure.file)
       IN  IF r.ok
           THEN pure' = [pure EXCEPT !.pc = "loaded", !.loaded = r.value]
           ELSE pure' = [pure EXCEPT !.pc = "done", !.exc = r.exc]
    /\ UNCHANGED << appVars, append_space, recVars, callerVars, files, tasks,
                    calls, pollVars, session, aai >>

\* save_config(loaded, path)
SaveConfigAgain ==
    /\ pure.fn \in {"save_config", "load_config"}
    /\ pure.pc = "loaded"
    /\ \/ pure' = [pure EXCEPT !.pc = "done", !.file2 = save_config(pure.loaded)]
       \/ pure' = [pure EXCEPT !.pc = "done", !.exc = "OSError"]
    /\ UNCHANGED << appVars, append_space, recVars, callerVars, files, tasks,
                    calls, pollVars, session, aai >>

ConfigNext ==
    \/ SaveConfigCall
    \/ LoadConfigCall
    \/ SaveConfigAgain

ConfigSpec == ConfigInit /\ [][ConfigNext]_vars

\* --------- AssemblyAITranscriber.__init__, GeminiTranscriber.__init__
\* The two variants that need an API key.
KeyedVariants == {"AssemblyAITranscriber", "GeminiTranscriber"}

\* What the config's key field and the environment variable can hold: nothing,
\* a blank, or one of two keys.
KeyStrings == {<< >>, << " " >>, << "k", "1" >>, << "k", "2" >>}
\* The environment variable is not set.
Unset == << "<unset>" >>
EnvValues == {Unset} \cup KeyStrings
\* config.language for the constructed transcriber.
ConfigLanguages == {<< >>, Nl, En \o << "-", "U", "S" >>}

\* os.getenv(name, "")
Getenv(env) == IF env = Unset THEN << >> ELSE env

\* No object came out of the constructor.
NoObject == [variant |-> NoVariant]

CredentialInit ==
    /\ InitShared
    /\ append_space = TRUE
    /\ pc = [c \in Callers |-> "off"]
    /\ aai = NoJob
    /\ \E v \in KeyedVariants, key \in KeyStrings, env \in EnvValues,
          lang \in ConfigLanguages, importable \in BOOLEAN :
          pure = [fn |-> "__init__", pc |-> "import", variant |-> v,
                  config_key |-> key, env |-> env, language |-> lang,
                  importable |-> importable, api_key |-> << >>,
                  object |-> NoObject, exc |-> "none"]

\* import requests / import google.generativeai as genai; ImportError is
\* turned into RuntimeError.
ImportDependency ==
    /\ pure.fn = "__init__"
    /\ pure.pc = "import"
    /\ IF pure.importable
       THEN pure' = [pure EXCEPT !.pc = "key"]
       ELSE pure' = [pure EXCEPT !.pc = "done", !.exc = "BackendUnavailable"]
    /\ UNCHANGED << appVars, append_space, recVars, callerVars, files, tasks,
                    calls, pollVars, session, aai >>

\* Mutant of ResolveKey: the environment variable goes before the config.
ResolveKey_EnvFirst ==
    /\ pure.fn = "__init__"
    /\ pure.pc = "key"
    /\ LET api_key == OrElse(Getenv(pure.env), pure.config_key)
       IN  IF api_key = << >>
           THEN pure' = [pure EXCEPT !.pc = "done",
                                     !.exc = "BackendUnavailable"]
           ELSE pure' = [pure EXCEPT !.pc = "finish", !.api_key = api_key]
    /\ UNCHANGED << appVars, append_space, recVars, callerVars, files, tasks,
                    calls, pollVars, session, aai >>

\* api_key = config.<variant>_api_key or os.getenv(NAME, "")
\* if not api_key: raise RuntimeError(...)
ResolveKey ==
    /\ pure.fn = "__init__"
    /\ pure.pc = "key"
    /\ LET api_key == OrElse(pure.config_key, Getenv(pure.env))
       IN  IF api_key = << >>
           THEN pure' = [pure EXCEPT !.pc = "done",
                                     !.exc = "BackendUnavailable"]
           ELSE pure' = [pure EXCEPT !.pc = "finish", !.api_key = api_key]
    /\ UNCHANGED << appVars, append_space, recVars, callerVars, files, tasks,
                    calls, pollVars, session, aai >>

\* The rest of __init__: the key goes into the request headers (AssemblyAI)
\* or into genai.configure (Gemini), the language is kept, and the
\* constructor returns the object.
FinishInit ==
    /\ pure.fn = "__init__"
    /\ pure.pc = "finish"
    /\ pure' = [pure EXCEPT
          !.pc = "done",
          !.object = [variant |-> pure.variant,
                      api_key |-> pure.api_key,
                      language |->
                          IF pure.variant = "AssemblyAITranscriber"
                          THEN normalize_assemblyai_language(
                                   OrElse(pure.language, Nl))
                          ELSE OrElse(pure.language, Nl)]]
    /\ UNCHANGED << appVars, append_space, recVars, callerVars, files, tasks,
                    calls, pollVars, session, aai >>

CredentialNext ==
    \/ ImportDependency
    \/ ResolveKey
    \/ FinishInit

CredentialSpec == CredentialInit /\ [][CredentialNext]_vars

\* ================================================================== claims
\* The hotkey thread takes a step.
HkSteps == pc'["hk"] # pc["hk"]
TaskEnds(t) == tasks[t].pc # "none" /\ tasks'[t].pc = "none"
InBackendCall == {t \in TaskIds : tasks[t].pc \in {"transcribing", "typing"}}
StartPcs == {"start_acquire", "start_check", "start_open", "start_stream",
             "start_done"}
StopPcs == {"stop_acquire", "stop_check", "stop_stream", "stop_close",
            "stop_read", "stop_mkstemp", "stop_write", "stop_done"}

\* C1: single flight. In every reachable state of the app, whatever the
\* interleaving of toggles, transcription tasks, status polls and audio
\* callbacks, _is_recording and _is_busy are not both true, so the session is
\* exactly one of Idle, Recording, Transcribing.
C1_SingleFlight ==
    /\ ~(is_recording /\ is_busy)
    /\ Cardinality({x \in {1, 2, 3} :
                      \/ x = 1 /\ Idle
                      \/ x = 2 /\ Recording
                      \/ x = 3 /\ Transcribing}) = 1

\* A toggle holds the app lock during a transcription, with a poll in flight.
C1_Witness ==
    /\ Transcribing
    /\ LiveTasks # {}
    /\ pc["hk"] = "t_locked"
    /\ poll_pc = "show"

\* C2: a toggle that finds the session Transcribing returns without calling
\* start() or stop(), without spawning a task and without changing the flags,
\* the recorder or the files; and the press is not queued: the step that ends a
\* transcription leaves the session Idle with the recorder untouched, and a
\* recording only ever begins in the start() branch of a toggle.
C2_BusyToggleNoOp ==
    /\ [][(pc["hk"] = "t_locked" /\ is_busy /\ HkSteps) =>
            /\ pc'["hk"] = "idle"
            /\ app_lock' = Free
            /\ calls = NoCalls
            /\ UNCHANGED << is_recording, is_busy, recVars, exc, files, tasks,
                            calls >>]_vars
    /\ [][(is_busy /\ ~is_busy') =>
            /\ Idle'
            /\ UNCHANGED << recVars, pc, calls >>]_vars
    /\ [][(~is_recording /\ is_recording') =>
            /\ pc["hk"] = "start_done"
            /\ calls.start = 1]_vars

\* The hotkey thread is back from a press made while a transcription runs.
C2_Witness ==
    /\ is_busy
    /\ pc["hk"] = "idle"
    /\ calls = NoCalls
    /\ \E t \in TaskIds : tasks[t].pc = "transcribing"

\* C3: whenever the session is Transcribing it eventually returns to Idle,
\* given that the backend calls return or raise and every thread is scheduled
\* fairly.
C3_TranscribingLeadsToIdle == Transcribing ~> Idle

C5_ToggleFromIdle ==
    /\ [](pc["hk"] \in StartPcs =>
            /\ calls = [start |-> 1, stop |-> 0, spawn |-> 0]
            /\ Idle
            /\ app_lock = "hk")
    /\ [][(pc["hk"] = "t_locked" /\ Idle /\ HkSteps) =>
            /\ pc'["hk"] = "start_acquire"
            /\ calls' = [start |-> 1, stop |-> 0, spawn |-> 0]]_vars
    /\ [][(pc["hk"] = "start_done" /\ HkSteps) =>
            /\ pc'["hk"] = "idle"
            /\ app_lock' = Free
            /\ UNCHANGED << calls, tasks, files >>
            /\ exc["hk"] # "none" => Idle'
            /\ exc["hk"] = "none" => Recording']_vars

\* The toggle has returned from a start() that the driver refused.
C5_Witness ==
    /\ pc["hk"] = "idle"
    /\ calls.start = 1
    /\ exc["hk"] = "PortAudioError"
    /\ Idle

\* C6: a toggle that finds the session Recording calls stop() exactly once;
\* when stop() raises, the toggle returns with the session Idle and no task;
\* when stop() returns an artifact, the flags say Transcribing in the step that
\* releases the app lock, and then exactly one task is started with that
\* artifact, the toggle returning while the task has not yet transcribed.
C6_ToggleFromRecording ==
    /\ [](pc["hk"] \in StopPcs =>
            /\ calls = [start |-> 0, stop |-> 1, spawn |-> 0]
            /\ Recording
            /\ app_lock = "hk")
    /\ [](pc["hk"] = "t_spawn" =>
            /\ calls = [start |-> 0, stop |-> 1, spawn |-> 0]
            /\ Transcribing
            /\ LiveTasks = {})
    /\ []((pc["hk"] = "idle" /\ calls.stop = 1) =>
            (calls.spawn = 1 <=> exc["hk"] = "none"))
    /\ [][(pc["hk"] = "t_locked" /\ Recording /\ HkSteps) =>
            /\ pc'["hk"] = "stop_acquire"
            /\ calls' = [start |-> 0, stop |-> 1, spawn |-> 0]]_vars
    /\ [][(pc["hk"] = "stop_done" /\ HkSteps) =>
            /\ app_lock' = Free
            /\ UNCHANGED << calls, tasks, files >>
            /\ exc["hk"] # "none" => (Idle' /\ pc'["hk"] = "idle")
            /\ exc["hk"] = "none" =>
                  (Transcribing' /\ pc'["hk"] = "t_spawn")]_vars
    /\ [][(pc["hk"] = "t_spawn" /\ HkSteps) =>
            /\ pc'["hk"] = "idle"
            /\ calls' = [start |-> 0, stop |-> 1, spawn |-> 1]
            /\ \E t \in TaskIds :
                  /\ LiveTasks' = {t}
                  /\ tasks'[t] = NewTask(wav_path["hk"])]_vars

\* The toggle has returned while the task it started is inside transcribe.
C6_Witness ==
    /\ pc["hk"] = "idle"
    /\ calls = [start |-> 0, stop |-> 1, spawn |-> 1]
    /\ \E t \in TaskIds : tasks[t].pc = "transcribing"

\* C7: the app lock is held by a task only in its final flag reset, never
\* while it is inside transcribe or type_text; so while a task is inside such a
\* call, the lock is free or held for a moment by the poll or by the toggle,
\* and a toggle holding it sees the busy flag (and returns without waiting).
C7_LockNotHeldAcrossTranscription ==
    /\ (app_lock = "task") <=> (\E t \in TaskIds : tasks[t].pc = "f_locked")
    /\ InBackendCall # {} =>
          /\ app_lock \in {Free, "hk", "poll"}
          /\ pc["hk"] \in {"idle", "t_acquire", "t_locked"}
          /\ pc["hk"] = "t_locked" => is_busy

\* A toggle holds the app lock while a task is inside transcribe.
C7_Witness ==
    /\ \E t \in TaskIds : tasks[t].pc = "transcribing"
    /\ pc["hk"] = "t_locked"
    /\ app_lock = "hk"
    /\ is_busy

\* C8: after a failed start() or stop() the toggle has returned, the session
\* is Idle and the recorder is ready, so that the next toggle can start a new
\* recording (start() is not refused because a stream is still open).
C8_FailureRecoverable ==
    (pc["hk"] = "idle" /\ exc["hk"] # "none") => (Idle /\ stream = NoStream)

\* C9: when stop() has closed the stream and finds that no frames were
\* accumulated, it raises NoAudioCaptured, creates no file, and leaves the
\* recorder unlocked with no stream; the stream is still None when the same
\* caller's next start() checks it, so that start() is not refused.
C9_NoAudioCaptured ==
    /\ [][\A c \in Callers :
            (pc[c] = "stop_read" /\ frames = << >> /\ pc'[c] # pc[c]) =>
               /\ pc'[c] = "stop_done"
               /\ exc'[c] = "NoAudioCaptured"
               /\ wav_path'[c] = NoPath
               /\ rec_lock' = Free
               /\ stream' = NoStream
               /\ ~active'
               /\ UNCHANGED files]_vars
    /\ []((exc["hk"] = "NoAudioCaptured"
            /\ pc["hk"] \in {"stop_done", "idle", "t_acquire", "t_locked",
                             "start_acquire", "start_check"}) =>
            (stream = NoStream /\ ~active /\ wav_path["hk"] = NoPath))
    /\ [][(exc["hk"] = "NoAudioCaptured" /\ pc["hk"] = "start_check" /\ HkSteps)
            => pc'["hk"] = "start_open"]_vars

\* The start() that follows a NoAudioCaptured stop() has opened a new stream.
C9_Witness ==
    /\ exc["hk"] = "NoAudioCaptured"
    /\ pc["hk"] = "start_stream"
    /\ stream = "open"

\* C10: start() on a recorder whose stream is open raises AlreadyRecording and
\* changes neither the stream nor the accumulated frames; stop() on a recorder
\* without a stream raises NotRecording, returns no artifact and creates no
\* file.
C10_PreconditionErrors ==
    /\ [][\A c \in Callers :
            (pc[c] = "start_check" /\ stream # NoStream /\ pc'[c] # pc[c]) =>
               /\ pc'[c] = "start_done"
               /\ exc'[c] = "AlreadyRecording"
               /\ rec_lock' = Free
               /\ UNCHANGED << stream, active, frames, files >>]_vars
    /\ [][\A c \in Callers :
            (pc[c] = "stop_check" /\ stream = NoStream /\ pc'[c] # pc[c]) =>
               /\ pc'[c] = "stop_done"
               /\ exc'[c] = "NotRecording"
               /\ wav_path'[c] = NoPath
               /\ rec_lock' = Free
               /\ UNCHANGED << stream, active, frames, files >>]_vars
    /\ [](\A c \in Callers :
            (pc[c] \in {"start_done", "stop_done"}
               /\ exc[c] \in {"AlreadyRecording", "NotRecording"}) =>
            wav_path[c] = NoPath)

\* One caller's start() was refused while the running stream kept its frames,
\* and another caller's stop() had been refused before the stream was opened.
C10_Witness ==
    /\ pc["h1"] = "start_done"
    /\ exc["h1"] = "AlreadyRecording"
    /\ pc["h2"] = "stop_done"
    /\ exc["h2"] = "NotRecording"
    /\ active
    /\ frames # << >>

\* The positions of start() and stop() inside their `with self._lock` block.
RecLockedPcs == {"start_check", "start_open", "start_stream", "stop_check",
                 "stop_stream", "stop_close", "stop_read"}

\* C11: the locked bodies of start() and stop() never interleave, whichever
\* threads call them: at most one caller is inside one, and it holds the
\* recorder lock. stop() has stopped and closed the stream when it reads the
\* buffer, and without a stream the driver delivers no callback, so nothing is
\* appended during or after the read. The buffer only grows by the callback
\* appending at its end. What stop() reads, and what it then writes as the
\* artifact, is exactly the sequence of chunks the driver delivered since that
\* session's start() opened the stream, in order of arrival.
C11_SessionChunks ==
    /\ [](\A c \in Callers :
            /\ rec_lock = c <=> pc[c] \in RecLockedPcs
            /\ \A d \in Callers :
                  (pc[c] \in RecLockedPcs /\ pc[d] \in RecLockedPcs) => c = d
            /\ pc[c] = "stop_read" => (stream = NoStream /\ ~active))
    /\ [](stream = NoStream => ~active)
    /\ [][frames' # frames =>
            \/ /\ frames' = << >>
               /\ \E c \in Callers : pc[c] = "start_check"
            \/ /\ active
               /\ \E ch \in Chunks : frames' = Append(frames, ch)
               /\ UNCHANGED pc]_vars
    /\ [][\A c \in Callers :
            /\ (pc[c] = "stop_read" /\ pc'[c] = "stop_mkstemp") =>
                  (audio_data'[c] = session /\ session # << >>)
            /\ (pc[c] = "stop_mkstemp" /\ pc'[c] = "stop_write") =>
                  audio_data'[c] = audio_data[c]
            /\ pc[c] = pc'[c] => audio_data'[c] = audio_data[c]
            /\ (pc[c] = "stop_write" /\ pc'[c] = "stop_done"
                  /\ exc'[c] = "none") =>
                  /\ wav_path'[c] = wav_path[c]
                  /\ files'[wav_path[c]] = File(audio_data[c])]_vars

\* Two sessions have been recorded: one caller still holds the artifact of the
\* first, the other has just been returned the artifact of the second, which
\* holds the second session's chunks and none of the first's.
C11_Witness ==
    /\ pc["h1"] = "stop_done"
    /\ pc["h2"] = "stop_done"
    /\ wav_path["h1"] # NoPath
    /\ wav_path["h2"] # NoPath
    /\ files[wav_path["h2"]] = File(<< 1 >>)
    /\ files[wav_path["h1"]] = File(<< 2, 1 >>)
    /\ session = << 2, 1 >>

\* C12: update_status only reads. A step of the poll changes neither flag, nor
\* the recorder, the callers of the recorder, the files or the tasks. It reads
\* both flags while it holds the app lock, during which neither flag changes,
\* so the pair it displays is the pair of flags as they were together at one
\* moment, and never says recording and busy at once.
C12_PollReadsSnapshot ==
    /\ [][poll_pc' # poll_pc =>
            UNCHANGED << is_recording, is_busy, append_space, recVars,
                         callerVars, files, tasks, calls, session >>]_vars
    /\ [](app_lock = "poll" <=> poll_pc \in {"locked", "locked2"})
    /\ [][(app_lock = "poll" /\ poll_pc \in {"locked", "locked2"}) =>
            UNCHANGED << is_recording, is_busy >>]_vars
    /\ [][(poll_pc = "locked2" /\ poll_pc' = "show") =>
            shown' = [recording |-> is_recording, busy |-> is_busy]]_vars
    /\ [](poll_pc = "show" =>
            /\ ~(shown.recording /\ shown.busy)
            /\ Title(shown) = "opname" <=> shown.recording
            /\ Title(shown) = "transcriberen" <=> shown.busy)

\* The poll is about to display a snapshot taken while recording; by now the
\* toggle has stopped the recording and a task is transcribing.
C12_Witness ==
    /\ poll_pc = "show"
    /\ shown = [recording |-> TRUE, busy |-> FALSE]
    /\ Transcribing
    /\ \E t \in TaskIds : tasks[t].pc = "transcribing"

\* s is the lower-case string n in some letter case.
EqualsIgnoreCase(s, n) ==
    /\ Len(s) = Len(n)
    /\ \A i \in 1..Len(n) : s[i] \in {n[i], UpperChar(n[i])}

\* The factory part of C13: create_transcriber instantiates the one class that
\* belongs to the engine name, and for any other config.engine raises
\* InvalidEngine having instantiated nothing.
C13_Factory ==
    pure.pc \in {"construct", "done"} =>
        /\ pure.engine = Whisper => pure.variant = "WhisperTranscriber"
        /\ pure.engine = AssemblyAI => pure.variant = "AssemblyAITranscriber"
        /\ pure.engine = Google => pure.variant = "GoogleTranscriber"
        /\ pure.engine = Gemini => pure.variant = "GeminiTranscriber"
        /\ pure.engine \in EngineNames =>
              /\ pure.exc # "InvalidEngine"
              /\ pure.constructed \subseteq {pure.variant}
              /\ (pure.pc = "done" /\ pure.exc = "none") =>
                    pure.constructed = {pure.variant}
        /\ pure.engine \notin EngineNames =>
              /\ pure.pc = "done"
              /\ pure.exc = "InvalidEngine"
              /\ pure.variant = NoVariant
              /\ pure.constructed = {}

\* C13 as claimed: the factory part, and load_config never turns a stored
\* engine value that is not one of the four names into one of them.
C13_NeverReplaced ==
    /\ C13_Factory
    /\ (pure.fn = "load_config" /\ pure.pc # "load"
          /\ pure.stored # Absent /\ pure.stored.text \notin EngineNames) =>
            pure.engine \notin EngineNames

\* C13, amended: the factory part; and load_config only lower-cases the stored
\* engine value: the loaded engine is one of the four names only if the stored
\* value is that name in some letter case, or the key is absent (the default,
\* whisper); every other stored value is loaded as an unrecognized engine and
\* fails with InvalidEngine in the factory.
C13_EngineSelection ==
    /\ C13_Factory
    /\ (pure.fn = "load_config" /\ pure.pc # "load") =>
          /\ pure.engine \in EngineNames =>
                \/ pure.stored = Absent /\ pure.engine = DefaultEngine
                \/ /\ pure.stored.type = "str"
                   /\ EqualsIgnoreCase(pure.stored.text, pure.engine)
          /\ (pure.stored # Absent
                /\ \A n \in EngineNames :
                      ~EqualsIgnoreCase(pure.stored.text, n)) =>
                /\ pure.engine \notin EngineNames
                /\ pure.pc \in {"create", "done"}
                /\ pure.pc = "done" => pure.exc = "InvalidEngine"

\* The file says engine = "Whisper"; the Whisper variant has been constructed.
C13_Witness ==
    /\ pure.fn = "load_config"
    /\ pure.stored = StrValue(Capitalize(Whisper))
    /\ pure.pc = "done"
    /\ pure.constructed = {"WhisperTranscriber"}

\* s is r without its leading and trailing spaces.
IsStripOf(s, r) ==
    /\ \E i, j \in 0..Len(r) :
          /\ i + Len(s) + j = Len(r)
          /\ \A k \in 1..Len(r) :
                IF k <= i \/ k > i + Len(s) THEN r[k] = " " ELSE r[k] = s[k - i]
    /\ s # << >> => (s[1] # " " /\ s[Len(s)] # " ")

\* C14: when transcribe has returned r, the task either does not call
\* type_text at all, when r without its surrounding whitespace is empty, or
\* calls it once, with r without its surrounding whitespace followed by one
\* space when append_space is set, and by nothing otherwise. type_text is
\* called nowhere else: a task calls it at most once, and never when transcribe
\* raised; what has been typed is the argument of that call.
C14_TypedText ==
    /\ [][\A t \in TaskIds :
            (tasks[t].pc = "check" /\ tasks'[t].pc # "check") =>
               \E s \in RawTexts :
                  /\ IsStripOf(s, tasks[t].raw)
                  /\ IF s = << >>
                     THEN /\ tasks'[t].pc = "finally"
                          /\ tasks'[t].nType = 0
                          /\ tasks'[t].arg = NoText
                     ELSE /\ tasks'[t].pc = "typing"
                          /\ tasks'[t].nType = 1
                          /\ append_space => tasks'[t].arg = s \o << " " >>
                          /\ ~append_space => tasks'[t].arg = s]_vars
    /\ [][\A t \in TaskIds :
            (tasks[t].pc \notin {"check", "none"} /\ ~TaskEnds(t)) =>
               /\ tasks'[t].nType = tasks[t].nType
               /\ tasks'[t].arg = tasks[t].arg]_vars
    /\ [](\A t \in LiveTasks :
            /\ tasks[t].pc \in {"start", "transcribing", "check"} =>
                  tasks[t].nType = 0
            /\ tasks[t].pc = "typing" => tasks[t].nType = 1
            /\ tasks[t].nType = 0 =>
                  (tasks[t].arg = NoText /\ tasks[t].typed = NoText)
            /\ tasks[t].nType = 1 => tasks[t].typed \in {NoText, tasks[t].arg}
            /\ tasks[t].nType <= 1)

\* A task has typed "a a " for a result that came with surrounding whitespace
\* stripped, with append_space set.
C14_Witness ==
    /\ append_space
    /\ \E t \in TaskIds :
          /\ tasks[t].pc = "finally"
          /\ tasks[t].nType = 1
          /\ tasks[t].typed = << "a", " ", "a", " " >>

\* C15 as claimed, the timeout case: the call fails with BackendTimeout
\* whenever no terminal status was observed before the deadline (a call that
\* ends because a request itself failed set aside).
C15_TimeoutUnlessTerminalBeforeDeadline ==
    (aai.pc = "done" /\ aai.exc # "HTTPError"
       /\ ~(aai.status \in TerminalStatuses /\ aai.now < aai.deadline)) =>
        aai.exc = "BackendTimeout"

\* C15, amended: the status loop always terminates. It returns the job's
\* (stripped) text only when the last poll reported completed, fails with
\* BackendError exactly when the last poll reported error, and fails with
\* BackendTimeout exactly when the loop test finds the deadline of 300 seconds
\* passed, every poll so far having reported a non-terminal status; a poll
\* begun before the deadline still decides the outcome, even if its response
\* arrives after the deadline. After a non-terminal status the loop sleeps the
\* fixed interval and tests the deadline again, and polls again when it has
\* not passed.
C15_StatusLoop ==
    /\ <>(aai.pc = "done")
    /\ [](aai.pc = "done" =>
            /\ aai.exc = "none" <=> aai.status = "completed"
            /\ aai.result # NoText <=> aai.status = "completed"
            /\ aai.exc = "BackendError" <=> aai.status = "error"
            /\ aai.exc = "BackendTimeout" =>
                  /\ aai.now >= DeadlineSeconds * TenthsPerSecond
                  /\ aai.status \notin TerminalStatuses
            /\ aai.exc \in {"none", "BackendError", "BackendTimeout",
                             "HTTPError"})
    /\ [](aai.pc # "done" =>
            /\ aai.status \notin TerminalStatuses
            /\ aai.result = NoText
            /\ aai.exc = "none")
    /\ [][aai.pc = "loop" =>
            /\ aai.now < DeadlineSeconds * TenthsPerSecond =>
                  (aai'.pc = "get" /\ aai'.now = aai.now)
            /\ aai.now >= DeadlineSeconds * TenthsPerSecond =>
                  (aai'.pc = "done" /\ aai'.exc = "BackendTimeout")]_vars
    /\ [][aai.pc = "get" =>
            /\ aai'.now - aai.now <= RequestTimeoutSeconds * TenthsPerSecond
            /\ (aai'.exc = "none" /\ aai'.status \in {"queued", "processing"})
                  => aai'.pc = "sleep"
            /\ aai'.pc = "sleep" => aai'.status \in {"queued", "processing"}]_vars
    /\ [][aai.pc = "sleep" =>
            (aai'.pc = "loop" /\ aai'.now = aai.now + SleepTenths)]_vars

\* The loop has polled for the whole 300 seconds, seen no terminal status, and
\* raised the timeout.
C15_Witness ==
    /\ aai.pc = "done"
    /\ aai.exc = "BackendTimeout"
    /\ aai.status = "processing"
    /\ aai.now >= DeadlineSeconds * TenthsPerSecond

\* The canonical token of each alias, as the claim lists them.
CanonicalOf(a) ==
    IF a \in {Ctrl, Control} THEN << "<", "c", "t", "r", "l", ">" >>
    ELSE IF a \in {Alt, Option} THEN << "<", "a", "l", "t", ">" >>
    ELSE IF a = Shift THEN << "<", "s", "h", "i", "f", "t", ">" >>
    ELSE << "<", "c", "m", "d", ">" >>
Aliases == {Ctrl, Control, Alt, Option, Shift, Cmd, Command, Win, Windows}
\* s without surrounding whitespace is an alias in some letter case.
IsAliasForm(s) == Lower(Strip(s)) \in Aliases
HasUpper(s) == \E i \in 1..Len(s) : LowerChar(s[i]) # s[i]

\* C16: an input that is one alias, in any letter case and with whitespace
\* around it, is normalized to the alias's canonical bracketed token; a chord
\* of two such aliases to the two canonical tokens joined by "+"; and
\* normalizing the result of any successful call returns it unchanged.
C16_AliasesAndIdempotence ==
    /\ pure.pc # "call" =>
          /\ IsAliasForm(pure.input) =>
                pure.out = Returned(CanonicalOf(Lower(Strip(pure.input))))
          /\ \A i \in 1..Len(pure.input) :
                LET left == SubSeq(pure.input, 1, i - 1)
                    right == SubSeq(pure.input, i + 1, Len(pure.input))
                IN  (pure.input[i] = "+" /\ IsAliasForm(left)
                       /\ IsAliasForm(right)) =>
                      pure.out = Returned(CanonicalOf(Lower(Strip(left)))
                                            \o << "+" >>
                                            \o CanonicalOf(Lower(Strip(right))))
    /\ pure.pc = "again" => (pure.out.ok /\ pure.again = pure.out)
    /\ pure.pc = "returned" => pure.out.ok

\* "ctrl+Alt" has been normalized to "<ctrl>+<alt>", and that once more.
C16_Witness ==
    /\ pure.pc = "again"
    /\ pure.input = Ctrl \o << "+" >> \o Capitalize(Alt)
    /\ pure.again = Returned(<< "<", "c", "t", "r", "l", ">", "+",
                                "<", "a", "l", "t", ">" >>)

\* The tokens of the returned chord, next to the non-blank tokens of the input.
OutTokens == SplitOn(pure.out.value, "+")
InTokens == HotkeyParts(pure.input)
IsBracketed(tok) == StartsWith(tok, "<") /\ EndsWith(tok, ">")

\* C17 as claimed: every token of the input that starts with "<" and ends
\* with ">" is, character for character, the token at the same position of
\* the returned chord.
C17_BracketedUnchanged ==
    (pure.pc # "call" /\ pure.out.ok) =>
        /\ Len(OutTokens) = Len(InTokens)
        /\ \A i \in 1..Len(InTokens) :
              IsBracketed(InTokens[i]) => OutTokens[i] = InTokens[i]

\* C17, amended: every token of the input that starts with "<" and ends with
\* ">" appears at the same position of the returned chord with its letters in
\* lower case and otherwise unchanged, whatever the other tokens are; so a
\* bracketed token without upper-case letters is passed through character for
\* character.
C17_BracketedLowerCased ==
    (pure.pc # "call" /\ pure.out.ok) =>
        /\ Len(OutTokens) = Len(InTokens)
        /\ \A i \in 1..Len(InTokens) :
              IsBracketed(InTokens[i]) =>
                 /\ Len(OutTokens[i]) = Len(InTokens[i])
                 /\ \A k \in 1..Len(InTokens[i]) :
                       OutTokens[i][k] = LowerChar(InTokens[i][k])
                 /\ ~HasUpper(InTokens[i]) => OutTokens[i] = InTokens[i]

\* "<F5>+D" has been normalized to "<f5>+d".
C17_Witness ==
    /\ pure.pc = "returned"
    /\ pure.input = << "<", "F", "5", ">", "+", "D" >>
    /\ pure.out = Returned(<< "<", "f", "5", ">", "+", "d" >>)

\* C18: the call raises EmptyHotkey exactly when every character of the input
\* is a "+" or whitespace (the empty string included); on every other input
\* it returns a non-empty chord.
C18_EmptyHotkey ==
    pure.pc # "call" =>
        LET blank == \A i \in 1..Len(pure.input) : pure.input[i] \in {"+", " "}
        IN  /\ blank <=> pure.out = Raised("EmptyHotkey")
            /\ blank <=> pure.pc = "raised"
            /\ ~blank => (pure.out.ok /\ pure.out.value # << >>)

\* " + " has been refused.
C18_Witness ==
    /\ pure.pc = "raised"
    /\ pure.input = << " ", "+", " " >>
    /\ pure.out = Raised("EmptyHotkey")

\* A language, a "-", and a region.
RegionQualified(s) == \E i \in 2..(Len(s) - 1) : s[i] = "-"
\* The five languages the claim's expansion applies to, with their regions.
ExpandedLocale(l) ==
    IF l = << "n", "l" >> THEN << "n", "l", "-", "N", "L" >>
    ELSE IF l = << "e", "n" >> THEN << "e", "n", "-", "U", "S" >>
    ELSE IF l = << "d", "e" >> THEN << "d", "e", "-", "D", "E" >>
    ELSE IF l = << "f", "r" >> THEN << "f", "r", "-", "F", "R" >>
    ELSE IF l = << "e", "s" >> THEN << "e", "s", "-", "E", "S" >>
    ELSE << >>
GoogleCalled == pure.fn = "normalize_google_language" /\ pure.pc # "call"
AssemblyaiCalled == pure.fn = "normalize_assemblyai_language" /\ pure.pc # "call"

IsLetter(ch) == \E i \in DOMAIN LowerLetters : LowerLetters[i] = LowerChar(ch)
\* A bare two-letter language code, or a code with a region.
IsLanguageCode(s) ==
    \/ RegionQualified(s)
    \/ Len(s) = 2 /\ \A i \in 1..Len(s) : IsLetter(s[i])

\* C19 as claimed: for every language code, bare or qualified,
\* normalize_google_language returns a region-qualified code.
C19_AlwaysRegionQualified ==
    (GoogleCalled /\ IsLanguageCode(pure.arg)) => RegionQualified(pure.out)

\* C19, amended: normalize_google_language returns a code that contains "-"
\* unchanged; it expands nl, en, de, fr, es, in any letter case, to nl-NL,
\* en-US, de-DE, fr-FR, es-ES; it returns every other code unchanged, so that
\* the result is region-qualified for the five languages and for qualified
\* input only; and it is idempotent. (An empty config.language is replaced by
\* nl-NL before the call.)
C19_GoogleLanguage ==
    /\ GoogleCalled =>
          /\ pure.arg = (IF pure.input = << >>
                         THEN << "n", "l", "-", "N", "L" >> ELSE pure.input)
          /\ (\E i \in 1..Len(pure.arg) : pure.arg[i] = "-") =>
                pure.out = pure.arg
          /\ ExpandedLocale(Lower(pure.arg)) # << >> =>
                (pure.out = ExpandedLocale(Lower(pure.arg))
                   /\ RegionQualified(pure.out))
          /\ ((\A i \in 1..Len(pure.arg) : pure.arg[i] # "-")
                /\ ExpandedLocale(Lower(pure.arg)) = << >>) =>
                (pure.out = pure.arg /\ ~RegionQualified(pure.out))
    /\ (GoogleCalled /\ pure.pc = "again") => pure.again = pure.out

\* "NL" has been expanded to "nl-NL", and that is returned unchanged.
C19_Witness ==
    /\ GoogleCalled
    /\ pure.pc = "again"
    /\ pure.input = << "N", "L" >>
    /\ pure.out = << "n", "l", "-", "N", "L" >>
    /\ pure.again = pure.out

\* C20: for a code with a "-", normalize_assemblyai_language returns what
\* stands before the first "-"; a code without "-" is returned unchanged; the
\* result contains no "-"; and the function applied to its result returns it
\* unchanged. (An empty config.language is replaced by nl before the call.)
C20_AssemblyaiLanguage ==
    /\ AssemblyaiCalled =>
          /\ pure.arg = (IF pure.input = << >> THEN << "n", "l" >>
                         ELSE pure.input)
          /\ \A i \in 1..Len(pure.arg) :
                (pure.arg[i] = "-" /\ \A j \in 1..(i - 1) : pure.arg[j] # "-")
                   => pure.out = SubSeq(pure.arg, 1, i - 1)
          /\ (\A i \in 1..Len(pure.arg) : pure.arg[i] # "-") =>
                pure.out = pure.arg
          /\ \A i \in 1..Len(pure.out) : pure.out[i] # "-"
    /\ (AssemblyaiCalled /\ pure.pc = "again") => pure.again = pure.out

\* "nl-NL" has been reduced to "nl", and that is returned unchanged.
C20_Witness ==
    /\ AssemblyaiCalled
    /\ pure.pc = "again"
    /\ pure.input = << "n", "l", "-", "N", "L" >>
    /\ pure.out = << "n", "l" >>
    /\ pure.again = << "n", "l" >>

\* C24: on every exit of _transcribe_and_type, also when deleting the
\* artifact fails, the thread has set _is_busy back to false.
C24_ResetOnEveryExit ==
    [][\A t \in TaskIds : TaskEnds(t) => (~is_busy' /\ Idle')]_vars

\* C25: whenever the app lock is free, _is_recording is true exactly when the
\* recorder's stream is open.
C25_FlagMatchesStream ==
    app_lock = Free => (is_recording <=> stream # NoStream)

\* C26: at most one _transcribe_and_type thread is alive at any time. A thread
\* is started only by the toggle that has just taken the session from
\* Recording to Transcribing, at a moment when no earlier thread is alive; while
\* a thread is alive the session is Transcribing, so no recording is started or
\* stopped until it has ended; hence at most one thread is inside type_text,
\* and the texts are typed in the order in which the recordings were stopped.
C26_OneTaskAtATime ==
    /\ [](Cardinality(LiveTasks) <= 1)
    /\ [](LiveTasks # {} => (Transcribing /\ pc["hk"] \notin StartPcs \cup StopPcs))
    /\ [](Cardinality({t \in TaskIds : tasks[t].pc = "typing"}) <= 1)
    /\ [][\A t \in TaskIds :
            (tasks[t].pc = "none" /\ tasks'[t].pc # "none") =>
               /\ pc["hk"] = "t_spawn"
               /\ Transcribing
               /\ LiveTasks = {}
               /\ calls.stop = 1]_vars
    /\ [][(is_recording # is_recording') => LiveTasks = {}]_vars
    /\ [][(~is_busy /\ is_busy') =>
            (Recording /\ pc["hk"] = "stop_done" /\ LiveTasks = {})]_vars

\* A toggle arrives while the one task is inside type_text.
C26_Witness ==
    /\ \E t \in TaskIds : tasks[t].pc = "typing"
    /\ Cardinality(LiveTasks) = 1
    /\ pc["hk"] = "t_locked"

\* C27: whenever the app lock is free and the session is Idle or Recording,
\* no file produced by the recorder exists.
C27_ArtifactOnlyWhileTranscribing ==
    (app_lock = Free /\ (Idle \/ Recording)) => ExistingFiles = {}

\* C28: no deadlock. The recorder lock is only ever taken by the hotkey
\* thread, and only while it holds the app lock; a task or the poll holding
\* the app lock waits for nothing; the audio callback waits for no lock.
\* Whoever holds a lock can take its next step. So, every thread being
\* scheduled and the calls into driver and backend returning or raising, both
\* locks are free again and again, and a toggle or a task that waits for the
\* app lock, and a start() or stop() that waits for the recorder lock, gets it.
C28_DeadlockFree ==
    /\ [](rec_lock \in {Free, "hk"})
    /\ [](rec_lock = "hk" => (app_lock = "hk" /\ ENABLED RecorderStep("hk")))
    /\ [](pc["hk"] \in {"start_acquire", "stop_acquire"} =>
            (app_lock = "hk" /\ rec_lock = Free))
    /\ [](app_lock = "hk" => ENABLED ToggleProgress)
    /\ [](app_lock = "task" => \E t \in TaskIds : ENABLED TaskReset(t))
    /\ [](app_lock = "poll" => ENABLED (PollReadRecording \/ PollRead))
    /\ []<>(app_lock = Free)
    /\ []<>(rec_lock = Free)
    /\ (pc["hk"] = "t_acquire") ~> (pc["hk"] = "t_locked")
    /\ (pc["hk"] \in {"start_acquire", "stop_acquire"})
          ~> (pc["hk"] \in {"start_check", "stop_check"})
    /\ \A t \in TaskIds :
          (tasks[t].pc = "f_acquire") ~> (tasks[t].pc = "f_locked")

\* The toggle waits for the app lock, which the poll holds, while a task waits
\* for it too.
C28_Witness ==
    /\ pc["hk"] = "t_acquire"
    /\ app_lock = "poll"
    /\ \E t \in TaskIds : tasks[t].pc = "f_acquire"


\* A valid AppConfig: an engine create_transcriber knows, and string fields
\* free of control characters.
ValidConfig(cfg) ==
    /\ cfg.engine \in EngineNames
    /\ \A k \in StringKeys : \A i \in DOMAIN cfg[k] : cfg[k][i] \notin ControlChars

\* The save, load and save again of a config all went through.
RoundTripDone ==
    pure.fn = "save_config" /\ pure.pc = "done" /\ pure.exc = "none"

FalsyStrings == {<< "0" >>, FalseText, << "n", "o" >>, << "n" >>,
                 << "o", "f", "f" >>}

\* A stored value the field can take over: of the field's type, or a string
\* that spells a number (sample_rate) or a boolean (append_space).
Usable(k, v) ==
    IF k \in StringKeys THEN v.type = "str"
    ELSE IF k = "sample_rate"
         THEN \/ v.type = "int"
              \/ v.type = "str" /\ IsDigits(Unsigned(StripWhitespace(v.text)))
    ELSE \/ v.type = "bool"
         \/ /\ v.type = "str"
            /\ Lower(StripWhitespace(v.text)) \in TruthyStrings \cup FalsyStrings

\* The stored value as the field's type.
StoredAs(k, v) ==
    IF k = "engine" THEN Lower(v.text)
    ELSE IF k \in StringKeys THEN v.text
    ELSE IF k = "sample_rate" THEN AsInt(v, 0)
    ELSE AsBool(v, FALSE)

\* load_config has been called on a file that exists, and is over.
LoadedFromFile ==
    /\ pure.fn = "load_config"
    /\ pure.pc \in {"loaded", "done"}
    /\ pure.file # NoConfigFile

\* C22: field-by-field fallback. Loading a file never fails; each key whose
\* value is absent, of another type or malformed gives its field the default
\* of AppConfig, and each other field has its stored value.
C22_FieldFallback ==
    LoadedFromFile =>
       /\ pure.exc # "TOMLDecodeError"
       /\ pure.loaded # NoConfig =>
             \A k \in KeySet :
                LET v == DataGet(pure.file, k)
                IN  pure.loaded[k] = IF Usable(k, v) THEN StoredAs(k, v)
                                     ELSE AppConfig[k]


\* The constructor of a keyed variant is over, its dependency being installed.
KeyedInitDone == pure.fn = "__init__" /\ pure.pc = "done" /\ pure.importable

\* C23: credential resolution of the AssemblyAI and Gemini variants. A
\* non-empty key in the config is the key of the transcriber whatever the
\* environment variable holds; with an empty config key the environment
\* variable's value is; with neither, the constructor raises (the
\* BackendUnavailable failure) and no object comes out of it. An object only
\* ever comes out with a non-empty key and no exception.
C23_CredentialResolution ==
    /\ (KeyedInitDone /\ pure.config_key # << >>)
          => /\ pure.exc = "none"
             /\ pure.object # NoObject
             /\ pure.object.variant = pure.variant
             /\ pure.object.api_key = pure.config_key
    /\ (KeyedInitDone /\ pure.config_key = << >> /\ Getenv(pure.env) # << >>)
          => /\ pure.exc = "none"
             /\ pure.object # NoObject
             /\ pure.object.api_key = pure.env
    /\ (KeyedInitDone /\ pure.config_key = << >> /\ Getenv(pure.env) = << >>)
          => /\ pure.exc = "BackendUnavailable"
             /\ pure.object = NoObject
    /\ (pure.fn = "__init__" /\ pure.object # NoObject)
          => (pure.exc = "none" /\ pure.object.api_key # << >>)
    /\ (pure.fn = "__init__" /\ pure.exc # "none") => pure.object = NoObject

\* A Gemini transcriber was constructed with the config's key while the
\* environment variable held another key.
C23_Witness ==
    /\ KeyedInitDone
    /\ pure.variant = "GeminiTranscriber"
    /\ pure.config_key = << "k", "1" >>
    /\ pure.env = << "k", "2" >>
    /\ pure.object # NoObject
    /\ pure.object.api_key = << "k", "1" >>

=============================================================================
